---- MODULE Spec2Model ----
(***************************************************************************)
(* Model of the marker cluster endpoint of bigpictureback:                 *)
(*   routes.rs    get_markers_cluster (HTTP handler)                       *)
(*   database.rs  Database::get_markers_cluster (query, precision          *)
(*                selection, cell grouping, image enrichment, reduction)   *)
(*   database.rs  Database::toggle_marker_reaction, add_marker_view (the   *)
(*                writers of the counters the endpoint reads)              *)
(*                                                                         *)
(* Units.  Latitudes, longitudes and viewport spans are f64 degrees in the *)
(* code; here they are integers counting thousandths of a degree, so the   *)
(* literals 2.0, 0.5, 0.1, 0.03, 0.01 read 2000, 500, 100, 30, 10.         *)
(* A cluster centre is an exact fraction [num, den] in lowest terms;       *)
(* f64 rounding is not modelled.                                           *)
(*                                                                         *)
(* Option<T> is a sequence of length at most one: None is <<>>, Some(x)    *)
(* is <<x>>.                                                               *)
(***************************************************************************)
EXTENDS Integers, Sequences, FiniteSets, TLC

VARIABLES
    markers,        \* table bigpicture.markers: id -> row
    marker_images,  \* table bigpicture.marker_images: id -> row
    h3,             \* H3Cell::from_point, as a table: resolution -> (point -> cell)
    request,        \* the HTTP request being served (query string and token)
    primary,        \* outcome of the primary marker query of this request
    rows,           \* marker_infos: the decoded rows of the primary query
    precision,      \* the resolution selected for this request (0: none yet)
    mode,           \* which branch of get_markers_cluster ran
    image_fetches,  \* the image queries this request issued, with their outcomes
    db_result,      \* what Database::get_markers_cluster returned
    response,       \* the HTTP response
    pending,        \* the number of requests still to arrive
    prev,           \* what the request served before this one was and returned
    member_markers, \* table bigpicture.member_markers: the set of its rows
    calls,          \* the reaction and view calls in progress, each inside its transaction
    tasks           \* the cluster requests served concurrently, each at its await point

vars == <<markers, marker_images, h3, request, primary, rows, precision, mode,
          image_fetches, db_result, response, pending, prev, member_markers, calls,
          tasks>>

----------------------------------------------------------------------------
(* Bounds of the model *)

NumMarkers == 3
NumImages == 3

----------------------------------------------------------------------------
(* Generic helpers *)

None == <<>>
Some(x) == <<x>>
IsSome(o) == Len(o) = 1
Unwrap(o) == o[1]

Abs(n) == IF n < 0 THEN -n ELSE n
Max(a, b) == IF a > b THEN a ELSE b
Min(a, b) == IF a < b THEN a ELSE b

RECURSIVE GCD(_, _)
GCD(a, b) == IF b = 0 THEN a ELSE GCD(b, a % b)

\* n / d as an exact fraction in lowest terms (d > 0)
Rat(n, d) ==
    LET g == GCD(Abs(n), d)
    IN  [num |-> n \div g, den |-> d \div g]

Range(s) == {s[i] : i \in DOMAIN s}

Take(s, n) == SubSeq(s, 1, Min(Len(s), n))

\* all orderings of a finite set
Perms(S) ==
    {p \in [1..Cardinality(S) -> S] : \A i, j \in 1..Cardinality(S) : p[i] = p[j] => i = j}

RECURSIVE Flatten(_)
Flatten(ss) == IF ss = <<>> THEN <<>> ELSE Head(ss) \o Flatten(Tail(ss))

RECURSIVE SumSeq(_)
SumSeq(s) == IF s = <<>> THEN 0 ELSE Head(s) + SumSeq(Tail(s))

NoDup(s) == \A i, j \in DOMAIN s : s[i] = s[j] => i = j

----------------------------------------------------------------------------
(* The store: the rows the tables hold when the requests arrive *)

\* a row of bigpicture.markers (database.rs 169-182); member_id is nullable
MarkerRow(i) ==
    [id          |-> i,
     member_id   |-> IF i = 1 THEN None ELSE Some(1 + (i % 2)),
     latitude    |-> 37500 + 2 * (i - 1),
     longitude   |-> 127000 - (i - 1),
     emotion_tag |-> IF i % 2 = 0 THEN "happy" ELSE "sad",
     likes       |-> (2 * i) % 3,
     dislikes    |-> i % 2,
     views       |-> (i + 1) % 3,
     created_at  |-> i]

\* a row of bigpicture.marker_images (database.rs 193-202)
ImageRow(j) ==
    [id          |-> j,
     marker_id   |-> 1 + (j % 2),
     image_order |-> NumImages - j,
     is_primary  |-> j = 1,
     created_at  |-> j]

MarkerIds == 1..NumMarkers

Points == {<<MarkerRow(i).longitude, MarkerRow(i).latitude>> : i \in MarkerIds}

\* The point of marker i: the fixture gives every marker a point of its own.
PointOf(i) == <<MarkerRow(i).longitude, MarkerRow(i).latitude>>

(* H3Cell::from_point is library code: all the endpoint relies on is that it
   is a function of (point, resolution).  A table assigns a cell number to
   every point; cell ids are opaque, so the tables are enumerated up to a
   renaming of the cells (the first point gets cell 1, every further point an
   already used cell or the next unused one).  The tables of two resolutions
   are chosen independently: from_point indexes the point at the resolution
   asked for, not through the parent of a finer cell, and a hexagon of the
   grid covers its seven children only approximately. *)
CellAssignments ==
    {f \in [Points -> 1..NumMarkers] :
        /\ f[PointOf(1)] = 1
        /\ \A i \in 2..NumMarkers :
              \E j \in 1..(i - 1) : f[PointOf(i)] <= f[PointOf(j)] + 1}

H3Tables(resolutions) == [resolutions -> CellAssignments]

\* the cell id of a point at a resolution
H3FromPoint(tbl, lng, lat, res) == <<res, tbl[res][<<lng, lat>>]>>

----------------------------------------------------------------------------
(* routes.rs: authentication of the caller *)

\* Authorization headers a request may carry
Tokens ==
    {[kind |-> "none",   sub |-> 0],
     [kind |-> "forged", sub |-> 1],
     [kind |-> "valid",  sub |-> 1],
     [kind |-> "valid",  sub |-> 2]}

\* extract_user_id_from_token: Ok(id) as Some(id), Err as None
ExtractUserId(token) ==
    IF token.kind = "valid" THEN Some(token.sub) ELSE None

\* query.my.unwrap_or(false)
MyFlag(req) == IF IsSome(req.my) THEN Unwrap(req.my) ELSE FALSE

\* the user id the handler passes to the database layer
UserIdOf(req) == IF MyFlag(req) THEN ExtractUserId(req.token) ELSE None

\* only a missing Authorization header is refused; a token that does not verify passes
IsUnauthorizedNoHeader(req) == MyFlag(req) /\ req.token.kind = "none"

\* the handler answers Unauthorized before any query
IsUnauthorized(req) == MyFlag(req) /\ ~IsSome(ExtractUserId(req.token))

----------------------------------------------------------------------------
(* database.rs: the primary marker query *)

DefaultLimit == 1000

LimitValue(req) == IF IsSome(req.limit) THEN Unwrap(req.limit) ELSE DefaultLimit

\* the envelope of the viewport itself, buffer_factor left out
InEnvelopeUnbuffered(m, req) ==
    /\ 10 * m.latitude  > 10 * req.lat - 5 * req.lat_delta
    /\ 10 * m.latitude  < 10 * req.lat + 5 * req.lat_delta
    /\ 10 * m.longitude > 10 * req.lng - 5 * req.lng_delta
    /\ 10 * m.longitude < 10 * req.lng + 5 * req.lng_delta

(* ST_Within(point, ST_MakeEnvelope(lng_min, lat_min, lng_max, lat_max)) with
   lat_min = lat - (lat_delta / 2) * 1.2 and so on: the point lies strictly
   inside the rectangle.  Multiplied by 10 to stay in integers. *)
InEnvelope(m, req) ==
    /\ 10 * m.latitude  > 10 * req.lat - 6 * req.lat_delta
    /\ 10 * m.latitude  < 10 * req.lat + 6 * req.lat_delta
    /\ 10 * m.longitude > 10 * req.lng - 6 * req.lng_delta
    /\ 10 * m.longitude < 10 * req.lng + 6 * req.lng_delta

(* The statement is text: every tag is written into it between two quotes,
   format!("'{}'", tag), as the caller sent it.  Two tags whose text ends the
   quoted literal and the IN list and goes on as SQL:
     x') OR ('1'='1   gives  .. AND emotion_tag IN ('x') OR ('1'='1') AND ..
     x') OR 1=1 --    gives  .. AND emotion_tag IN ('x') OR 1=1 --') AND ..  *)
OrTag == "x') OR ('1'='1"
CommentTag == "x') OR 1=1 --"

(* what the tags do to the statement they are written into: nothing, an OR
   after the IN list, or an OR and a comment that takes the rest of the line
   (the remaining conditions, ORDER BY and LIMIT); read on a tag sent alone *)
Breakout(req) ==
    IF req.emotion_tags = Some({OrTag}) THEN "or"
    ELSE IF req.emotion_tags = Some({CommentTag}) THEN "comment"
    ELSE "none"

(* the WHERE clause as the store reads it: the conditions up to the tag list,
   then those after it; AND binds tighter than OR *)
Selected(m, req, user_id) ==
    LET head == /\ InEnvelope(m, req)
                /\ IsSome(user_id) => m.member_id = Some(Unwrap(user_id))
                /\ (IsSome(req.emotion_tags) /\ Unwrap(req.emotion_tags) # {})
                      => m.emotion_tag \in Unwrap(req.emotion_tags)
        tail == /\ IsSome(req.min_likes) => m.likes >= Unwrap(req.min_likes)
                /\ IsSome(req.min_views) => m.views >= Unwrap(req.min_views)
    IN  CASE Breakout(req) = "none"    -> head /\ tail
          [] Breakout(req) = "or"      -> head \/ tail
          [] Breakout(req) = "comment" -> TRUE

\* ORDER BY created_at DESC: every order of the rows the clause allows
OrderByClause(S) ==
    {p \in Perms(S) : \A i, j \in DOMAIN p : i < j => p[i].created_at >= p[j].created_at}

\* the query without its LIMIT clause
QueryResultsNoLimit(tbl, req, user_id) ==
    LET sel == {tbl[i] : i \in {k \in DOMAIN tbl : Selected(tbl[k], req, user_id)}}
    IN  OrderByClause(sel)

(* the row sequences the query may return: WHERE, ORDER BY, LIMIT; when the
   rest of the line is a comment, the selected rows in any order *)
QueryResults(tbl, req, user_id) ==
    LET sel == {tbl[i] : i \in {k \in DOMAIN tbl : Selected(tbl[k], req, user_id)}}
    IN  IF Breakout(req) = "comment"
        THEN Perms(sel)
        ELSE {Take(p, LimitValue(req)) : p \in OrderByClause(sel)}

\* PgRow -> MarkerClusterInfo: a NULL member_id decodes to 0
DecodeRow(r) ==
    [id         |-> r.id,
     member_id  |-> IF IsSome(r.member_id) THEN Unwrap(r.member_id) ELSE 0,
     latitude   |-> r.latitude,
     longitude  |-> r.longitude,
     emotion_tag |-> r.emotion_tag,
     likes      |-> r.likes,
     dislikes   |-> r.dislikes,
     views      |-> r.views,
     created_at |-> r.created_at]

DecodeRows(rs) == [i \in DOMAIN rs |-> DecodeRow(rs[i])]

\* the query counting a view on every marker it returns
AfterSelectCountingViews(tbl, rs) ==
    [i \in DOMAIN tbl |->
        IF tbl[i] \in Range(rs) THEN [tbl[i] EXCEPT !.views = @ + 1] ELSE tbl[i]]

\* bigpicture.markers after the primary query: a SELECT, the table is as it was
AfterSelect(tbl, rs) == tbl

----------------------------------------------------------------------------
(* database.rs: precision selection and the mode switch *)

\* the chain with inclusive comparisons
PrecisionInclusive(lat_delta, lng_delta) ==
    IF lat_delta >= 2000 \/ lng_delta >= 2000 THEN 3
    ELSE IF lat_delta >= 500 \/ lng_delta >= 500 THEN 4
    ELSE IF lat_delta >= 100 \/ lng_delta >= 100 THEN 5
    ELSE IF lat_delta >= 30 \/ lng_delta >= 30 THEN 8
    ELSE 9

Precision(lat_delta, lng_delta) ==
    IF lat_delta > 2000 \/ lng_delta > 2000 THEN 3
    ELSE IF lat_delta > 500 \/ lng_delta > 500 THEN 4
    ELSE IF lat_delta > 100 \/ lng_delta > 100 THEN 5
    ELSE IF lat_delta > 30 \/ lng_delta > 30 THEN 8
    ELSE 9

\* the mode test with "and" for "or"
IsUngroupedBoth(prec, lat_delta, lng_delta) ==
    prec >= 9 /\ (lat_delta < 10 /\ lng_delta < 10)

IsUngrouped(prec, lat_delta, lng_delta) ==
    prec >= 9 \/ (lat_delta < 10 /\ lng_delta < 10)

----------------------------------------------------------------------------
(* database.rs: image enrichment *)

\* SELECT ... WHERE marker_id = $1 ORDER BY image_order ASC: the possible results
ImageQueryResults(tbl, marker_id) ==
    LET sel == {tbl[j] : j \in {k \in DOMAIN tbl : tbl[k].marker_id = marker_id}}
    IN  {p \in Perms(sel) : \A i, j \in DOMAIN p : i < j => p[i].image_order <= p[j].image_order}

\* one image fetch: fetch_all(..).await.unwrap_or_default(): a failed query yields no rows
FetchImages(tbl, marker_id, ok) ==
    IF ok THEN ImageQueryResults(tbl, marker_id) ELSE {<<>>}

(* marker_images_map: the fan-out over all_marker_ids collected into a map;
   the fetches of the ids in failed fail, the others succeed *)
ImageMaps(tbl, ids, failed) ==
    LET all == UNION {FetchImages(tbl, id, id \notin failed) : id \in ids}
    IN  {f \in [ids -> all] : \A id \in ids : f[id] \in FetchImages(tbl, id, id \notin failed)}

\* the log of the fetches issued for all_marker_ids, in the order they were issued
FetchLog(all_marker_ids, failed) ==
    [i \in DOMAIN all_marker_ids |->
        [marker_id |-> all_marker_ids[i], ok |-> all_marker_ids[i] \notin failed]]

ImageJson(img) ==
    [id         |-> img.id,
     markerId   |-> img.marker_id,
     imageOrder |-> img.image_order,
     isPrimary  |-> img.is_primary,
     createdAt  |-> img.created_at]

\* every marker given the images of the lowest marker id of the map
ImagesJsonFirstEntry(m, images_map) ==
    IF images_map = <<>> THEN <<>>
    ELSE LET first == CHOOSE k \in DOMAIN images_map : \A x \in DOMAIN images_map : k <= x
         IN  [i \in DOMAIN images_map[first] |-> ImageJson(images_map[first][i])]

\* marker_images_map.get(&m.id).unwrap_or(&empty_vec), each image as JSON
ImagesJson(m, images_map) ==
    IF m.id \in DOMAIN images_map
    THEN [i \in DOMAIN images_map[m.id] |-> ImageJson(images_map[m.id][i])]
    ELSE <<>>

\* the JSON object of one marker, as the database layer builds it
MarkerJson(m, images_map) ==
    [id        |-> m.id,
     memberId  |-> m.member_id,
     latitude  |-> m.latitude,
     longitude |-> m.longitude,
     emotionTag |-> m.emotion_tag,
     likes     |-> m.likes,
     dislikes  |-> m.dislikes,
     views     |-> m.views,
     createdAt |-> m.created_at,
     images    |-> ImagesJson(m, images_map)]

----------------------------------------------------------------------------
(* database.rs: the two result builders *)

\* ungrouped mode: one singleton cluster per marker, in the order of the rows
UngroupedCluster(m, images_map) ==
    [h3_index   |-> None,
     lat        |-> Rat(m.latitude, 1),
     lng        |-> Rat(m.longitude, 1),
     count      |-> 1,
     marker_ids |-> <<m.id>>,
     markers    |-> <<MarkerJson(m, images_map)>>]

\* ungrouped mode skipping the markers that have no image
UngroupedResultWithImages(marker_infos, images_map) ==
    LET shown == SelectSeq(marker_infos, LAMBDA m : ImagesJson(m, images_map) # <<>>)
    IN  [i \in DOMAIN shown |-> UngroupedCluster(shown[i], images_map)]

UngroupedResult(marker_infos, images_map) ==
    [i \in DOMAIN marker_infos |-> UngroupedCluster(marker_infos[i], images_map)]

\* the cell of a marker at the selected resolution
CellOf(tbl, m, prec) == H3FromPoint(tbl, m.longitude, m.latitude, prec)

\* the map keyed by the latitude of the marker instead of its cell
ClusterGroupsByLatitude(marker_infos, prec, tbl) ==
    LET keys == {marker_infos[i].latitude : i \in DOMAIN marker_infos}
    IN  [c \in keys |-> SelectSeq(marker_infos, LAMBDA m : m.latitude = c)]

\* the map filled with insert(h3idx, vec![marker]): a cell keeps its last marker only
ClusterGroupsInsert(marker_infos, prec, tbl) ==
    LET cells == {CellOf(tbl, marker_infos[i], prec) : i \in DOMAIN marker_infos}
        InCell(c) == SelectSeq(marker_infos, LAMBDA m : CellOf(tbl, m, prec) = c)
    IN  [c \in cells |-> <<InCell(c)[Len(InCell(c))]>>]

(* clusters: HashMap<u64, Vec<MarkerClusterInfo>>; every marker is pushed to
   the entry of its cell, in the order of the rows *)
ClusterGroups(marker_infos, prec, tbl) ==
    LET cells == {CellOf(tbl, marker_infos[i], prec) : i \in DOMAIN marker_infos}
    IN  [c \in cells |-> SelectSeq(marker_infos, LAMBDA m : CellOf(tbl, m, prec) = c)]

\* the closure with the fold adding the latitude to both sums
ClusterReduceSwapped(h3idx, marker_list, images_map) ==
    LET count   == Len(marker_list)
        sum_lat == SumSeq([i \in DOMAIN marker_list |-> marker_list[i].latitude])
    IN  [h3_index   |-> Some(h3idx),
         lat        |-> Rat(sum_lat, count),
         lng        |-> Rat(sum_lat, count),
         count      |-> count,
         marker_ids |-> [i \in DOMAIN marker_list |-> marker_list[i].id],
         markers    |-> [i \in DOMAIN marker_list |-> MarkerJson(marker_list[i], images_map)]]

\* the closure run for every (h3idx, marker_list) of cluster_data
ClusterReduce(h3idx, marker_list, images_map) ==
    LET count   == Len(marker_list)
        sum_lat == SumSeq([i \in DOMAIN marker_list |-> marker_list[i].latitude])
        sum_lng == SumSeq([i \in DOMAIN marker_list |-> marker_list[i].longitude])
    IN  [h3_index   |-> Some(h3idx),
         lat        |-> Rat(sum_lat, count),
         lng        |-> Rat(sum_lng, count),
         count      |-> count,
         marker_ids |-> [i \in DOMAIN marker_list |-> marker_list[i].id],
         markers    |-> [i \in DOMAIN marker_list |-> MarkerJson(marker_list[i], images_map)]]

\* grouped mode: cluster_data in the map's iteration order, reduced entry by entry
GroupedResult(clusters, order, images_map) ==
    [i \in DOMAIN order |-> ClusterReduce(order[i], clusters[order[i]], images_map)]

\* all_marker_ids of grouped mode: the ids of the map's values, flattened
GroupedMarkerIds(clusters, order) ==
    Flatten([i \in DOMAIN order |-> [k \in DOMAIN clusters[order[i]] |-> clusters[order[i]][k].id]])

----------------------------------------------------------------------------
(* routes.rs: the handler's post-processing *)

\* is_mine with the comparison negated
IsMineNegated(member_id, user_id) ==
    IF IsSome(user_id) THEN member_id # Unwrap(user_id) ELSE FALSE

\* is_mine of one marker object
IsMine(member_id, user_id) ==
    IF IsSome(user_id) THEN member_id = Unwrap(user_id) ELSE FALSE

\* obj.insert("isMine", ..)
InsertIsMine(marker, user_id) ==
    [k \in DOMAIN marker \cup {"isMine"} |->
        IF k = "isMine" THEN IsMine(marker.memberId, user_id) ELSE marker[k]]

\* the loop over every marker of every cluster
AddIsMine(clusters, user_id) ==
    [i \in DOMAIN clusters |->
        [clusters[i] EXCEPT !.markers =
            [k \in DOMAIN clusters[i].markers |-> InsertIsMine(clusters[i].markers[k], user_id)]]]

\* the response counting the markers of all clusters instead of the clusters
OkResponseMarkerTotal(clusters) ==
    [status |-> "Ok", data |-> clusters,
     count |-> SumSeq([i \in DOMAIN clusters |-> clusters[i].count])]

\* HttpResponse::Ok with data and count
OkResponse(clusters) == [status |-> "Ok", data |-> clusters, count |-> Len(clusters)]

\* an error response: a message, no data
ErrorResponse(status) == [status |-> status, data |-> <<>>, count |-> 0]

----------------------------------------------------------------------------
(* The requests the model serves *)

NewRequest(vp, my, token, sort_by, sort_order, limit) ==
    [lat          |-> 37500,
     lng          |-> 127000,
     lat_delta    |-> vp[1],
     lng_delta    |-> vp[2],
     emotion_tags |-> None,
     min_likes    |-> None,
     min_views    |-> None,
     sort_by      |-> sort_by,
     sort_order   |-> sort_order,
     limit        |-> limit,
     my           |-> my,
     token        |-> token]

\* <<lat_delta, lng_delta>>: both spans tiny, on the 0.01 and 0.03 thresholds, just above 0.03
Viewports == {<<5, 5>>, <<10, 5>>, <<30, 30>>, <<31, 5>>}

MyValues == {None, Some(FALSE), Some(TRUE)}
SortByValues == {None, Some("likes"), Some("malicious_column")}
SortOrderValues == {None, Some("asc"), Some("sideways")}
LimitValues == {None, Some(2)}

Requests ==
    {NewRequest(vp, my, tok, sb, so, lim) :
        vp \in Viewports, my \in MyValues, tok \in Tokens,
        sb \in SortByValues, so \in SortOrderValues, lim \in LimitValues}

\* the resolutions at which a set of viewports groups markers into cells
GroupedResolutions(vps) ==
    {Precision(vp[1], vp[2]) : vp \in {v \in vps : ~IsUngrouped(Precision(v[1], v[2]), v[1], v[2])}}

NoRequest == NewRequest(<<0, 0>>, None, [kind |-> "none", sub |-> 0], None, None, None)
NoResponse == [status |-> "None", data |-> <<>>, count |-> 0]

----------------------------------------------------------------------------
(* What Database::get_markers_cluster returns *)

DbNotCalled == [state |-> "NotCalled", clusters |-> <<>>]

\* the primary query with unwrap_or_default(): a failure reads as no rows
DbErrorSwallowed == [state |-> "Ok", clusters |-> <<>>]

\* fetch_all(&self.pool).await? : the error of the primary query is returned
DbError == [state |-> "Err", clusters |-> <<>>]

DbOk(clusters) == [state |-> "Ok", clusters |-> clusters]

\* the fetches with `?`: one failed fetch fails the request
AfterEnrichmentPropagating(failed, clusters) ==
    IF failed # {} THEN [state |-> "Err", clusters |-> <<>>] ELSE [state |-> "Ok", clusters |-> clusters]

(* image_futures.collect().await with unwrap_or_default() in every fetch: the
   fetches that failed leave no trace in the result *)
AfterEnrichment(failed, clusters) == DbOk(clusters)

\* the match on the result with an empty cluster list answered as not found
HandlerResponseNotFound(res, user_id) ==
    IF res.state = "Ok" /\ res.clusters # <<>>
    THEN OkResponse(AddIsMine(res.clusters, user_id))
    ELSE IF res.state = "Ok" THEN ErrorResponse("NotFound")
    ELSE ErrorResponse("InternalServerError")

\* the match on the result in the handler
HandlerResponse(res, user_id) ==
    IF res.state = "Ok"
    THEN OkResponse(AddIsMine(res.clusters, user_id))
    ELSE ErrorResponse("InternalServerError")

\* the summary kept of a served request when the next one arrives
Summary ==
    [lat_delta |-> request.lat_delta,
     lng_delta |-> request.lng_delta,
     state     |-> db_result.state,
     mode      |-> mode,
     precision |-> precision,
     ids       |-> {rows[i].id : i \in DOMAIN rows},
     count     |-> Len(db_result.clusters)]

----------------------------------------------------------------------------
(* Actions: one per way a request is served, each the whole handler *)

\* my=true without a usable token: answered before the database is touched
Unauthorized(req) ==
    /\ pending > 0
    /\ pending' = pending - 1
    /\ prev' = Summary
    /\ IsUnauthorized(req)
    /\ request' = req
    /\ primary' = "NotIssued"
    /\ rows' = <<>>
    /\ precision' = 0
    /\ mode' = "none"
    /\ image_fetches' = <<>>
    /\ db_result' = DbNotCalled
    /\ response' = ErrorResponse("Unauthorized")
    /\ UNCHANGED <<markers, marker_images, h3, member_markers, calls, tasks>>

\* the primary query fails (the store is unreachable, or rejects the statement)
StoreError(req) ==
    /\ pending > 0
    /\ pending' = pending - 1
    /\ prev' = Summary
    /\ ~IsUnauthorized(req)
    /\ request' = req
    /\ primary' = "Failed"
    /\ rows' = <<>>
    /\ precision' = 0
    /\ mode' = "none"
    /\ image_fetches' = <<>>
    /\ db_result' = DbError
    /\ response' = HandlerResponse(DbError, UserIdOf(req))
    /\ UNCHANGED <<markers, marker_images, h3, member_markers, calls, tasks>>

(* the request is served in ungrouped mode; the image fetches of any of the
   markers in `faulty` may fail *)
Ungrouped(req, faulty) ==
    LET uid  == UserIdOf(req)
        prec == Precision(req.lat_delta, req.lng_delta)
    IN  /\ pending > 0
        /\ pending' = pending - 1
        /\ prev' = Summary
        /\ ~IsUnauthorized(req)
        /\ LimitValue(req) >= 0
        /\ IsUngrouped(prec, req.lat_delta, req.lng_delta)
        /\ \E rs \in QueryResults(markers, req, uid) :
             LET infos == DecodeRows(rs)
                 all_marker_ids == [i \in DOMAIN infos |-> infos[i].id]
             IN  \E failed \in SUBSET (Range(all_marker_ids) \cap faulty) :
                 \E images_map \in ImageMaps(marker_images, Range(all_marker_ids), failed) :
                      LET res == AfterEnrichment(failed, UngroupedResult(infos, images_map))
                      IN  /\ request' = req
                          /\ primary' = "Ok"
                          /\ rows' = infos
                          /\ precision' = prec
                          /\ mode' = "ungrouped"
                          /\ image_fetches' = FetchLog(all_marker_ids, failed)
                          /\ db_result' = res
                          /\ response' = HandlerResponse(res, uid)
                          /\ markers' = AfterSelect(markers, rs)
        /\ UNCHANGED <<marker_images, h3, member_markers, calls, tasks>>

(* the request is served in grouped mode; the image fetches of any of the
   markers in `faulty` may fail *)
Grouped(req, faulty) ==
    LET uid  == UserIdOf(req)
        prec == Precision(req.lat_delta, req.lng_delta)
    IN  /\ pending > 0
        /\ pending' = pending - 1
        /\ prev' = Summary
        /\ ~IsUnauthorized(req)
        /\ LimitValue(req) >= 0
        /\ ~IsUngrouped(prec, req.lat_delta, req.lng_delta)
        /\ \E rs \in QueryResults(markers, req, uid) :
             LET infos    == DecodeRows(rs)
                 clusters == ClusterGroups(infos, prec, h3)
             IN  \E order \in Perms(DOMAIN clusters) :
                   LET all_marker_ids == GroupedMarkerIds(clusters, order)
                   IN  \E failed \in SUBSET (Range(all_marker_ids) \cap faulty) :
                       \E images_map \in ImageMaps(marker_images, Range(all_marker_ids), failed) :
                            LET res == AfterEnrichment(failed, GroupedResult(clusters, order, images_map))
                            IN  /\ request' = req
                                /\ primary' = "Ok"
                                /\ rows' = infos
                                /\ precision' = prec
                                /\ mode' = "grouped"
                                /\ image_fetches' = FetchLog(all_marker_ids, failed)
                                /\ db_result' = res
                                /\ response' = HandlerResponse(res, uid)
                                /\ markers' = AfterSelect(markers, rs)
        /\ UNCHANGED <<marker_images, h3, member_markers, calls, tasks>>

(* the request reaches the reduction in grouped mode and the blocking task
   does not hand back a result (it panicked, or the runtime is shutting
   down): spawn_blocking(..).await? returns the JoinError *)
ReduceError(req, faulty) ==
    LET uid  == UserIdOf(req)
        prec == Precision(req.lat_delta, req.lng_delta)
    IN  /\ pending > 0
        /\ pending' = pending - 1
        /\ prev' = Summary
        /\ ~IsUnauthorized(req)
        /\ LimitValue(req) >= 0
        /\ ~IsUngrouped(prec, req.lat_delta, req.lng_delta)
        /\ \E rs \in QueryResults(markers, req, uid) :
             LET infos    == DecodeRows(rs)
                 clusters == ClusterGroups(infos, prec, h3)
             IN  \E order \in Perms(DOMAIN clusters) :
                   LET all_marker_ids == GroupedMarkerIds(clusters, order)
                   IN  \E failed \in SUBSET (Range(all_marker_ids) \cap faulty) :
                         /\ request' = req
                         /\ primary' = "Ok"
                         /\ rows' = infos
                         /\ precision' = prec
                         /\ mode' = "grouped"
                         /\ image_fetches' = FetchLog(all_marker_ids, failed)
                         /\ db_result' = DbError
                         /\ response' = HandlerResponse(DbError, uid)
                         /\ markers' = AfterSelect(markers, rs)
        /\ UNCHANGED <<marker_images, h3, member_markers, calls, tasks>>

----------------------------------------------------------------------------
(* Spec: one request, any parameters, any outcome of the store; the blocking
   pool hands back every reduction *)

\* no interaction recorded, no reaction call and no concurrent request under way
InitQuiet ==
    /\ member_markers = {}
    /\ calls = <<>>
    /\ tasks = <<>>

InitStore ==
    /\ markers = [i \in MarkerIds |-> MarkerRow(i)]
    /\ marker_images = [j \in 1..NumImages |-> ImageRow(j)]
    /\ InitQuiet

InitIdle ==
    /\ request = NoRequest
    /\ primary = "NotIssued"
    /\ rows = <<>>
    /\ precision = 0
    /\ mode = "none"
    /\ image_fetches = <<>>
    /\ db_result = DbNotCalled
    /\ response = NoResponse

Init ==
    /\ InitStore
    /\ InitIdle
    /\ h3 \in H3Tables(GroupedResolutions(Viewports))
    /\ pending = 1
    /\ prev = Summary

\* the requests that may arrive now
Arriving(reqs) == IF pending > 0 THEN reqs ELSE {}

Next ==
    \/ \E req \in Arriving(Requests) : Unauthorized(req)
    \/ \E req \in Arriving(Requests) : StoreError(req)
    \/ \E req \in Arriving(Requests) : Ungrouped(req, MarkerIds)
    \/ \E req \in Arriving(Requests) : Grouped(req, MarkerIds)

Spec == Init /\ [][Next]_vars

----------------------------------------------------------------------------
(* SpecPrecision: the precision selection alone, over spans on and around
   every threshold *)

ThresholdSpans == {5, 10, 30, 31, 100, 101, 500, 501, 2000, 2001}

PrecisionRequests ==
    {NewRequest(<<a, b>>, None, [kind |-> "none", sub |-> 0], None, None, None) :
        a \in ThresholdSpans, b \in ThresholdSpans}

\* the if/else chain and the mode test that follows it
SelectPrecision ==
    /\ pending > 0
    /\ pending' = pending - 1
    /\ precision' = Precision(request.lat_delta, request.lng_delta)
    /\ mode' = IF IsUngrouped(precision', request.lat_delta, request.lng_delta)
               THEN "ungrouped" ELSE "grouped"
    /\ UNCHANGED <<markers, marker_images, h3, request, primary, rows,
                   image_fetches, db_result, response, prev, member_markers, calls, tasks>>

InitPrecision ==
    /\ InitStore
    /\ request \in PrecisionRequests
    /\ primary = "Ok"
    /\ rows = <<>>
    /\ precision = 0
    /\ mode = "none"
    /\ image_fetches = <<>>
    /\ db_result = DbNotCalled
    /\ response = NoResponse
    /\ h3 \in H3Tables({})
    /\ pending = 1
    /\ prev = Summary

NextPrecision == SelectPrecision

SpecPrecision == InitPrecision /\ [][NextPrecision]_vars

----------------------------------------------------------------------------
(* SpecReduce: the reduction closure alone, over member lists drawn from a
   grid of coordinates *)

MaxMembers == 4

\* -1, 0 and 2 degrees
Coordinates == {-1000, 0, 2000}

MemberInfo(i, pt) ==
    [id         |-> i,
     member_id  |-> 0,
     latitude   |-> pt[1],
     longitude  |-> pt[2],
     emotion_tag |-> "",
     likes      |-> 0,
     dislikes   |-> 0,
     views      |-> 0,
     created_at |-> 0]

MemberLists ==
    {[i \in DOMAIN pts |-> MemberInfo(i, pts[i])] :
        pts \in UNION {[1..n -> Coordinates \X Coordinates] : n \in 1..MaxMembers}}

\* one entry of cluster_data is reduced; no images are attached
ReduceCluster ==
    /\ pending > 0
    /\ pending' = pending - 1
    /\ mode' = "grouped"
    /\ db_result' = DbOk(<<ClusterReduce(<<precision, 1>>, rows, <<>>)>>)
    /\ UNCHANGED <<markers, marker_images, h3, request, primary, rows, precision,
                   image_fetches, response, prev, member_markers, calls, tasks>>

InitReduce ==
    /\ InitStore
    /\ request = NewRequest(<<2001, 2001>>, None, [kind |-> "none", sub |-> 0], None, None, None)
    /\ primary = "Ok"
    /\ rows \in MemberLists
    /\ precision = Precision(request.lat_delta, request.lng_delta)
    /\ mode = "none"
    /\ image_fetches = <<>>
    /\ db_result = DbNotCalled
    /\ response = NoResponse
    /\ h3 \in H3Tables({})
    /\ pending = 1
    /\ prev = Summary

NextReduce == ReduceCluster

SpecReduce == InitReduce /\ [][NextReduce]_vars

----------------------------------------------------------------------------
(* SpecZoom: two requests in a row on the same store, differing in the
   viewport spans only; the image store answers every fetch *)

\* one viewport per mode: ungrouped, resolution 8 (latitude span widened),
\* resolution 3 (longitude span widened)
ZoomViewports == {<<10, 10>>, <<31, 10>>, <<31, 2001>>}

ZoomRequests ==
    {NewRequest(vp, None, [kind |-> "none", sub |-> 0], None, None, None) :
        vp \in ZoomViewports}

InitZoom ==
    /\ InitStore
    /\ InitIdle
    /\ h3 \in H3Tables(GroupedResolutions(ZoomViewports))
    /\ pending = 2
    /\ prev = Summary

NextZoom ==
    \/ \E req \in Arriving(ZoomRequests) : StoreError(req)
    \/ \E req \in Arriving(ZoomRequests) : Ungrouped(req, {})
    \/ \E req \in Arriving(ZoomRequests) : Grouped(req, {})

SpecZoom == InitZoom /\ [][NextZoom]_vars

----------------------------------------------------------------------------
(* SpecQuery: one request with any combination of filters, owner restriction
   and limit, on viewports whose 20% margin decides which markers are in;
   the image store answers every fetch *)

FilteredRequest(vp, tags, min_likes, min_views, my, token, limit) ==
    [NewRequest(vp, my, token, None, None, limit) EXCEPT
        !.emotion_tags = tags, !.min_likes = min_likes, !.min_views = min_views]

(* <<lat_delta, lng_delta>>: the margin alone takes the second marker in;
   the margin alone takes the third marker in; on the 0.03 threshold; above it *)
QueryViewports == {<<4, 4>>, <<7, 7>>, <<30, 30>>, <<31, 7>>}

TagFilters == {None, Some({}), Some({"happy"})}
MinLikesValues == {None, Some(1)}
MinViewsValues == {None, Some(1)}

\* <<my, token>>
Callers ==
    {<<None, [kind |-> "none", sub |-> 0]>>,
     <<Some(TRUE), [kind |-> "none", sub |-> 0]>>,
     <<Some(TRUE), [kind |-> "valid", sub |-> 1]>>,
     <<Some(TRUE), [kind |-> "valid", sub |-> 2]>>}

\* no limit, LIMIT 0, a limit below the number of markers, a negative limit
QueryLimits == {None, Some(0), Some(2), Some(-1)}

QueryRequests ==
    {FilteredRequest(vp, tags, ml, mv, c[1], c[2], lim) :
        vp \in QueryViewports, tags \in TagFilters, ml \in MinLikesValues,
        mv \in MinViewsValues, c \in Callers, lim \in QueryLimits}

InitQuery ==
    /\ InitStore
    /\ InitIdle
    /\ h3 \in H3Tables(GroupedResolutions(QueryViewports))
    /\ pending = 1
    /\ prev = Summary

NextQuery ==
    \/ \E req \in Arriving(QueryRequests) : Unauthorized(req)
    \/ \E req \in Arriving(QueryRequests) : StoreError(req)
    \/ \E req \in Arriving(QueryRequests) : Ungrouped(req, {})
    \/ \E req \in Arriving(QueryRequests) : Grouped(req, {})

SpecQuery == InitQuery /\ [][NextQuery]_vars

----------------------------------------------------------------------------
(* SpecTags: one request whose emotion_tags parameter is any text the caller
   chooses: a tag of the application, or a tag that goes on as SQL *)

TagTexts == {Some({"happy"}), Some({OrTag}), Some({CommentTag})}

\* <<lat_delta, lng_delta>>: ungrouped with marker 3 outside the rectangle, grouped
TagViewports == {<<4, 4>>, <<31, 7>>}

TagRequests ==
    {FilteredRequest(vp, tags, ml, None, c[1], c[2], lim) :
        vp \in TagViewports, tags \in TagTexts, ml \in MinLikesValues,
        c \in Callers, lim \in {None, Some(2)}}

InitTags ==
    /\ InitStore
    /\ InitIdle
    /\ h3 \in H3Tables(GroupedResolutions(TagViewports))
    /\ pending = 1
    /\ prev = Summary

NextTags ==
    \/ \E req \in Arriving(TagRequests) : Unauthorized(req)
    \/ \E req \in Arriving(TagRequests) : StoreError(req)
    \/ \E req \in Arriving(TagRequests) : Ungrouped(req, {})
    \/ \E req \in Arriving(TagRequests) : Grouped(req, {})

SpecTags == InitTags /\ [][NextTags]_vars

----------------------------------------------------------------------------
(* SpecImages: one request on an image store where images of one marker may
   share their image_order (the column is not unique and defaults to 0) *)

ImageOrders == {0, 1}

\* the image tables: the rows of the fixture with any image_order each
ImageTables ==
    {[j \in 1..NumImages |-> [ImageRow(j) EXCEPT !.image_order = ord[j]]] :
        ord \in [1..NumImages -> ImageOrders]}

\* an ungrouped and a grouped viewport holding every marker
ImageViewports == {<<10, 10>>, <<31, 10>>}

ImageRequests ==
    {NewRequest(vp, None, [kind |-> "none", sub |-> 0], None, None, None) :
        vp \in ImageViewports}

InitImages ==
    /\ markers = [i \in MarkerIds |-> MarkerRow(i)]
    /\ marker_images \in ImageTables
    /\ InitQuiet
    /\ InitIdle
    /\ h3 \in H3Tables(GroupedResolutions(ImageViewports))
    /\ pending = 1
    /\ prev = Summary

NextImages ==
    \/ \E req \in Arriving(ImageRequests) : StoreError(req)
    \/ \E req \in Arriving(ImageRequests) : Ungrouped(req, MarkerIds)
    \/ \E req \in Arriving(ImageRequests) : Grouped(req, MarkerIds)

SpecImages == InitImages /\ [][NextImages]_vars

----------------------------------------------------------------------------
(* SpecFaults: one request, with every sub-step that can fail failing or
   not: the primary query, each image fetch, the reduction task *)

InitFaults ==
    /\ InitStore
    /\ InitIdle
    /\ h3 \in H3Tables(GroupedResolutions(ImageViewports))
    /\ pending = 1
    /\ prev = Summary

NextFaults ==
    \/ \E req \in Arriving(ImageRequests) : StoreError(req)
    \/ \E req \in Arriving(ImageRequests) : Ungrouped(req, MarkerIds)
    \/ \E req \in Arriving(ImageRequests) : Grouped(req, MarkerIds)
    \/ \E req \in Arriving(ImageRequests) : ReduceError(req, MarkerIds)

SpecFaults == InitFaults /\ [][NextFaults]_vars

----------------------------------------------------------------------------
(* SpecTasks: cluster requests served concurrently.  A request is a future
   that advances from one await to the next: the primary query, the
   collection of its image fetches (which complete one by one, in any
   order), in grouped mode the blocking reduction task.  The caller may
   drop the future at any await. *)

NumTasks == 2

\* a request slot before its request arrives
IdleTask ==
    [pc        |-> "idle",
     req       |-> NoRequest,
     rows      |-> <<>>,
     precision |-> 0,
     mode      |-> "none",
     clusters  |-> <<>>,
     order     |-> <<>>,
     ids       |-> <<>>,
     in_flight |-> {},
     running   |-> {},
     fetched   |-> <<>>,
     failed    |-> {},
     images_map |-> <<>>,
     out       |-> DbNotCalled,
     response  |-> NoResponse]

\* <<lat_delta, lng_delta>>: ungrouped and grouped, markers 1 and 2 in the envelope
TaskViewports == {<<4, 4>>, <<31, 3>>}

TaskRequests ==
    {NewRequest(vp, None, [kind |-> "none", sub |-> 0], None, None, None) :
        vp \in TaskViewports}

\* the points a request of TaskRequests can select
TaskPoints ==
    {PointOf(i) : i \in {k \in MarkerIds : \E req \in TaskRequests : InEnvelope(MarkerRow(k), req)}}

(* the cell tables, told apart by the points the requests can select only:
   the cell of a point that is never looked up is left at 1 *)
TaskH3Tables ==
    {tbl \in H3Tables(GroupedResolutions(TaskViewports)) :
        \A r \in DOMAIN tbl : \A pt \in Points \ TaskPoints : tbl[r][pt] = 1}

\* PgPoolOptions::new().max_connections(5): one pool for all requests
PoolSize == 5

\* the connections the image fetches of all requests hold
ConnectionsInUse(tsks) == SumSeq([u \in DOMAIN tsks |-> Cardinality(tsks[u].running)])

\* the fetches that were issued and wait for a connection of the pool
Waiters(tsks) ==
    {w \in (DOMAIN tsks) \X MarkerIds : w[2] \in tsks[w[1]].in_flight \ tsks[w[1]].running}

\* k released connections go to fetches that wait, as far as there are any
HandOver(tsks, k) ==
    {[u \in DOMAIN tsks |->
         [tsks[u] EXCEPT !.running = @ \cup {id \in MarkerIds : <<u, id>> \in W}]] :
       W \in {X \in SUBSET Waiters(tsks) : Cardinality(X) = Min(k, Cardinality(Waiters(tsks)))}}

\* a fan-out that drives one fetch at a time
IssueOneAtATime(ids) == Range(Take(ids, 1))

(* image_futures.collect::<Vec<_>>().await: the FuturesUnordered polls every
   future it was given, so every fetch is issued when the collection is
   first awaited *)
Issue(ids) == Range(ids)

\* the issued fetches that find an idle connection, in the order they are polled
Connect(tsks, ids) ==
    Range(Take(SelectSeq(ids, LAMBDA id : id \in Issue(ids)), PoolSize - ConnectionsInUse(tsks)))

(* the primary query answers; rows are decoded, grouped, the fetches created
   and the collection awaited *)
StartTask(t, req) ==
    LET uid  == UserIdOf(req)
        prec == Precision(req.lat_delta, req.lng_delta)
    IN  /\ tasks[t].pc = "idle"
        /\ ~IsUnauthorized(req)
        /\ LimitValue(req) >= 0
        /\ ConnectionsInUse(tasks) < PoolSize
        /\ \E rs \in QueryResults(markers, req, uid) :
             LET infos == DecodeRows(rs)
             IN  IF IsUngrouped(prec, req.lat_delta, req.lng_delta)
                 THEN LET all_marker_ids == [i \in DOMAIN infos |-> infos[i].id]
                      IN  tasks' = [tasks EXCEPT ![t] =
                            [IdleTask EXCEPT !.pc = "fetching", !.req = req, !.rows = infos,
                                             !.precision = prec, !.mode = "ungrouped",
                                             !.ids = all_marker_ids,
                                             !.in_flight = Issue(all_marker_ids),
                                             !.running = Connect(tasks, all_marker_ids)]]
                 ELSE LET clusters == ClusterGroups(infos, prec, h3)
                      IN  \E order \in Perms(DOMAIN clusters) :
                            LET all_marker_ids == GroupedMarkerIds(clusters, order)
                            IN  tasks' = [tasks EXCEPT ![t] =
                                  [IdleTask EXCEPT !.pc = "fetching", !.req = req, !.rows = infos,
                                                   !.precision = prec, !.mode = "grouped",
                                                   !.clusters = clusters, !.order = order,
                                                   !.ids = all_marker_ids,
                                                   !.in_flight = Issue(all_marker_ids),
                                                   !.running = Connect(tasks, all_marker_ids)]]
        /\ UNCHANGED <<markers, marker_images, h3, request, primary, rows, precision, mode,
                       image_fetches, db_result, response, pending, prev, member_markers, calls>>

\* the primary query fails: the error is returned at once
StartFailed(t, req) ==
    /\ tasks[t].pc = "idle"
    /\ ~IsUnauthorized(req)
    /\ tasks' = [tasks EXCEPT ![t] =
          [IdleTask EXCEPT !.pc = "done", !.req = req, !.out = DbError,
                           !.response = HandlerResponse(DbError, UserIdOf(req))]]
    /\ UNCHANGED <<markers, marker_images, h3, request, primary, rows, precision, mode,
                   image_fetches, db_result, response, pending, prev, member_markers, calls>>

\* f with key k set to v
Put(f, k, v) == [x \in DOMAIN f \cup {k} |-> IF x = k THEN v ELSE f[x]]

(* one image fetch of the request completes: with rows, if it held a
   connection, or with an error (of the query, or of the wait for a
   connection); the connection it held goes back to the pool *)
FetchDone(t, faulty) ==
    /\ tasks[t].pc = "fetching"
    /\ \E id \in tasks[t].in_flight :
       \E ok \in {b \in {TRUE} : id \in tasks[t].running} \cup {b \in {FALSE} : id \in faulty} :
       \E images \in FetchImages(marker_images, id, ok) :
          LET released == Cardinality(tasks[t].running \cap {id})
              after == [tasks EXCEPT ![t].fetched = Put(@, id, images),
                                     ![t].failed = IF ok THEN @ ELSE @ \cup {id},
                                     ![t].in_flight = @ \ {id},
                                     ![t].running = @ \ {id}]
          IN  tasks' \in HandOver(after, released)
    /\ UNCHANGED <<markers, marker_images, h3, request, primary, rows, precision, mode,
                   image_fetches, db_result, response, pending, prev, member_markers, calls>>

\* the collection resolving as soon as one fetch has completed
JoinReadyFirst(task) == task.fetched # <<>> \/ task.ids = <<>>

\* image_futures.collect::<Vec<_>>().await resolves: every fetch has completed
JoinReady(task) == DOMAIN task.fetched = Range(task.ids)

\* one map for all requests, a marker's entry kept from the first request that fetched it
TaskImagesShared(tsks, t) ==
    LET Holders(id) == {u \in DOMAIN tsks : id \in DOMAIN tsks[u].fetched}
        First(id) == CHOOSE u \in Holders(id) : \A v \in Holders(id) : u <= v
    IN  [id \in UNION {DOMAIN tsks[u].fetched : u \in DOMAIN tsks} |-> tsks[First(id)].fetched[id]]

\* marker_images_map: a local of the call, collected from the call's own fetches
TaskImages(tsks, t) == tsks[t].fetched

\* ungrouped mode: the join, the result loop and the handler's response
JoinUngrouped(t) ==
    /\ tasks[t].pc = "fetching"
    /\ tasks[t].mode = "ungrouped"
    /\ JoinReady(tasks[t])
    /\ LET images_map == TaskImages(tasks, t)
           res == AfterEnrichment(tasks[t].failed, UngroupedResult(tasks[t].rows, images_map))
       IN  tasks' = [tasks EXCEPT ![t].pc = "done", ![t].images_map = images_map, ![t].out = res,
                                  ![t].response = HandlerResponse(res, UserIdOf(tasks[t].req))]
    /\ UNCHANGED <<markers, marker_images, h3, request, primary, rows, precision, mode,
                   image_fetches, db_result, response, pending, prev, member_markers, calls>>

\* grouped mode: the join; the map is moved into the blocking reduction task
JoinGrouped(t) ==
    /\ tasks[t].pc = "fetching"
    /\ tasks[t].mode = "grouped"
    /\ JoinReady(tasks[t])
    /\ tasks' = [tasks EXCEPT ![t].pc = "reducing", ![t].images_map = TaskImages(tasks, t)]
    /\ UNCHANGED <<markers, marker_images, h3, request, primary, rows, precision, mode,
                   image_fetches, db_result, response, pending, prev, member_markers, calls>>

\* grouped mode: the reduction task is joined, the handler responds
ReduceDone(t) ==
    /\ tasks[t].pc = "reducing"
    /\ LET res == AfterEnrichment(tasks[t].failed,
                     GroupedResult(tasks[t].clusters, tasks[t].order, tasks[t].images_map))
       IN  tasks' = [tasks EXCEPT ![t].pc = "done", ![t].out = res,
                                  ![t].response = HandlerResponse(res, UserIdOf(tasks[t].req))]
    /\ UNCHANGED <<markers, marker_images, h3, request, primary, rows, precision, mode,
                   image_fetches, db_result, response, pending, prev, member_markers, calls>>

\* grouped mode: the reduction task does not hand back a result
ReduceFailed(t) ==
    /\ tasks[t].pc = "reducing"
    /\ tasks' = [tasks EXCEPT ![t].pc = "done", ![t].out = DbError,
                              ![t].response = HandlerResponse(DbError, UserIdOf(tasks[t].req))]
    /\ UNCHANGED <<markers, marker_images, h3, request, primary, rows, precision, mode,
                   image_fetches, db_result, response, pending, prev, member_markers, calls>>

\* the client goes away: the future is dropped with everything it holds
Abandon(t) ==
    /\ tasks[t].pc \in {"fetching", "reducing"}
    /\ tasks' \in HandOver([tasks EXCEPT ![t] = [IdleTask EXCEPT !.pc = "abandoned", !.req = tasks[t].req]],
                            Cardinality(tasks[t].running))
    /\ UNCHANGED <<markers, marker_images, h3, request, primary, rows, precision, mode,
                   image_fetches, db_result, response, pending, prev, member_markers, calls>>

InitTasks ==
    /\ markers = [i \in MarkerIds |-> MarkerRow(i)]
    /\ marker_images = [j \in 1..NumImages |-> ImageRow(j)]
    /\ member_markers = {}
    /\ calls = <<>>
    /\ InitIdle
    /\ h3 \in TaskH3Tables
    /\ pending = 0
    /\ prev = Summary
    /\ tasks = [t \in 1..NumTasks |-> IdleTask]

NextTasks ==
    \/ \E t \in DOMAIN tasks : \E req \in TaskRequests : StartTask(t, req)
    \/ \E t \in DOMAIN tasks : \E req \in TaskRequests : StartFailed(t, req)
    \/ \E t \in DOMAIN tasks : FetchDone(t, MarkerIds)
    \/ \E t \in DOMAIN tasks : JoinUngrouped(t)
    \/ \E t \in DOMAIN tasks : JoinGrouped(t)
    \/ \E t \in DOMAIN tasks : ReduceDone(t)
    \/ \E t \in DOMAIN tasks : ReduceFailed(t)
    \/ \E t \in DOMAIN tasks : Abandon(t)

SpecTasks == InitTasks /\ [][NextTasks]_vars

----------------------------------------------------------------------------
(* SpecReactions: the reaction endpoints.  toggle_marker_reaction and
   add_marker_view each run one transaction: a SELECT of the member's
   existing interaction, then the writes it decides on, then the commit.
   Calls run concurrently under READ COMMITTED: the SELECT of a call sees
   what has been committed when it runs; its writes take row locks held to
   the commit, act on the latest committed version of the rows they touch,
   and become visible together at the commit.  So a call is two steps, the
   SELECT and the commit (or the rollback, on any error). *)

NumCalls == 3

\* the members who react, and the markers they react to
Members == {1, 2}
ReactionMarkers == {1, 2}

\* the routes call toggle_marker_reaction with "liked" or "disliked"
ReactionTypes == {"liked", "disliked"}

(* no call begun, none that took a reaction back committed, the sequence of
   member_markers.id at its start *)
NoCalls == [open |-> {}, begun |-> 0, removed |-> 0, next_id |-> 1]

\* WHERE member_id = $1 AND marker_id = $2 AND interaction_type IN (..)
InteractionRows(mm, member, marker, types) ==
    {r \in mm : r.member_id = member /\ r.marker_id = marker /\ r.interaction_type \in types}

\* fetch_optional: no row, or the first row of those that match, whichever it is
FetchOptional(matching) ==
    IF matching = {} THEN {None} ELSE {Some(r) : r \in matching}

\* the table without its UNIQUE constraint
UniqueViolationOff(mm, id, member, marker, type) == FALSE

\* UNIQUE(member_id, marker_id, interaction_type): another row holds the triple
UniqueViolation(mm, id, member, marker, type) ==
    \E r \in mm : /\ r.id # id
                  /\ r.member_id = member
                  /\ r.marker_id = marker
                  /\ r.interaction_type = type

\* the counter column of a reaction, and the column of the opposite reaction
CounterOf(type) == IF type = "liked" THEN "likes" ELSE "dislikes"
OtherCounter(type) == IF type = "liked" THEN "dislikes" ELSE "likes"

\* likes - 1, without GREATEST
DecrementUnclamped(n) == n - 1

\* GREATEST(likes - 1, 0)
Decrement(n) == Max(n - 1, 0)

\* a reaction taken back without its counter UPDATE
RemoveReactionKeepCount(tbl, marker, type) == tbl

\* the UPDATEs of bigpicture.markers
RemoveReaction(tbl, marker, type) ==
    [tbl EXCEPT ![marker][CounterOf(type)] = Decrement(@)]

SwitchReaction(tbl, marker, type) ==
    [tbl EXCEPT ![marker][CounterOf(type)] = @ + 1,
                ![marker][OtherCounter(type)] = Decrement(@)]

AddReaction(tbl, marker, type) ==
    [tbl EXCEPT ![marker][CounterOf(type)] = @ + 1]

AddView(tbl, marker) ==
    [tbl EXCEPT ![marker].views = @ + 1]

\* a call opens its transaction and reads the member's existing interaction
BeginCall(member, marker, op, types) ==
    /\ calls.begun < NumCalls
    /\ \E existing \in FetchOptional(InteractionRows(member_markers, member, marker, types)) :
          calls' = [calls EXCEPT
                       !.begun = @ + 1,
                       !.open = @ \cup {[no |-> calls.begun + 1, op |-> op, member |-> member,
                                         marker |-> marker, existing |-> existing]}]
    /\ UNCHANGED <<markers, marker_images, h3, request, primary, rows, precision, mode,
                   image_fetches, db_result, response, pending, prev, member_markers, tasks>>

BeginReaction(member, marker, type) == BeginCall(member, marker, type, ReactionTypes)

BeginView(member, marker) == BeginCall(member, marker, "viewed", {"viewed"})

\* the INSERT of a new interaction row
InsertRow(mm, id, c) ==
    mm \cup {[id |-> id, member_id |-> c.member, marker_id |-> c.marker, interaction_type |-> c.op]}

\* toggle_marker_reaction writes and commits
CommitReaction(c) ==
    /\ c \in calls.open
    /\ c.op \in ReactionTypes
    /\ IF IsSome(c.existing)
       THEN LET e == Unwrap(c.existing)
            IN  IF e.interaction_type = c.op
                THEN /\ member_markers' = {r \in member_markers : r.id # e.id}
                     /\ markers' = RemoveReaction(markers, c.marker, c.op)
                     /\ calls' = [calls EXCEPT !.open = @ \ {c}, !.removed = @ + 1]
                ELSE /\ (\E r \in member_markers : r.id = e.id)
                          => ~UniqueViolation(member_markers, e.id, c.member, c.marker, c.op)
                     /\ member_markers' =
                          {IF r.id = e.id THEN [r EXCEPT !.interaction_type = c.op] ELSE r :
                              r \in member_markers}
                     /\ markers' = SwitchReaction(markers, c.marker, c.op)
                     /\ calls' = [calls EXCEPT !.open = @ \ {c}]
       ELSE /\ ~UniqueViolation(member_markers, 0, c.member, c.marker, c.op)
            /\ member_markers' = InsertRow(member_markers, calls.next_id, c)
            /\ markers' = AddReaction(markers, c.marker, c.op)
            /\ calls' = [calls EXCEPT !.open = @ \ {c}, !.next_id = @ + 1]
    /\ UNCHANGED <<marker_images, h3, request, primary, rows, precision, mode,
                   image_fetches, db_result, response, pending, prev, tasks>>

\* add_marker_view writes, if it found no view of the member, and commits
CommitView(c) ==
    /\ c \in calls.open
    /\ c.op = "viewed"
    /\ IF IsSome(c.existing)
       THEN /\ UNCHANGED <<markers, member_markers>>
            /\ calls' = [calls EXCEPT !.open = @ \ {c}]
       ELSE /\ ~UniqueViolation(member_markers, 0, c.member, c.marker, c.op)
            /\ member_markers' = InsertRow(member_markers, calls.next_id, c)
            /\ markers' = AddView(markers, c.marker)
            /\ calls' = [calls EXCEPT !.open = @ \ {c}, !.next_id = @ + 1]
    /\ UNCHANGED <<marker_images, h3, request, primary, rows, precision, mode,
                   image_fetches, db_result, response, pending, prev, tasks>>

\* a statement of the call fails (`?`): the transaction is dropped and rolls back
AbortCall(c) ==
    /\ c \in calls.open
    /\ calls' = [calls EXCEPT !.open = @ \ {c}]
    /\ UNCHANGED <<markers, marker_images, h3, request, primary, rows, precision, mode,
                   image_fetches, db_result, response, pending, prev, member_markers, tasks>>

InitReactions ==
    /\ markers = [i \in MarkerIds |-> MarkerRow(i)]
    /\ marker_images = [j \in 1..NumImages |-> ImageRow(j)]
    /\ member_markers = {}
    /\ calls = NoCalls
    /\ tasks = <<>>
    /\ InitIdle
    /\ h3 \in H3Tables({})
    /\ pending = 0
    /\ prev = Summary

NextReactions ==
    \/ \E member \in Members, marker \in ReactionMarkers, type \in ReactionTypes :
          BeginReaction(member, marker, type)
    \/ \E member \in Members, marker \in ReactionMarkers : BeginView(member, marker)
    \/ \E c \in calls.open : CommitReaction(c)
    \/ \E c \in calls.open : CommitView(c)
    \/ \E c \in calls.open : AbortCall(c)

SpecReactions == InitReactions /\ [][NextReactions]_vars

----------------------------------------------------------------------------
(* SpecCounted: the reaction endpoints on a store whose counters agree with
   its interaction rows: no row, and likes, dislikes and views at their
   DEFAULT 0 *)

InitCounted ==
    /\ markers = [i \in MarkerIds |->
                    [MarkerRow(i) EXCEPT !.likes = 0, !.dislikes = 0, !.views = 0]]
    /\ marker_images = [j \in 1..NumImages |-> ImageRow(j)]
    /\ member_markers = {}
    /\ calls = NoCalls
    /\ tasks = <<>>
    /\ InitIdle
    /\ h3 \in H3Tables({})
    /\ pending = 0
    /\ prev = Summary

SpecCounted == InitCounted /\ [][NextReactions]_vars

----------------------------------------------------------------------------
(* SpecPrimary: set_marker_primary_image.  The call sends two UPDATEs to the
   pool, one after the other and outside any transaction: each is committed
   when it returns.  Calls run concurrently, so the statements of two calls
   may alternate. *)

\* <<marker_id, image_id>>: two images of marker 2, and an image marker 1 does not have
PrimaryTargets == {<<2, 1>>, <<2, 3>>, <<1, 1>>}

\* no call begun; last is the call that has just returned Ok, if the last step was its return
NoPrimaryCalls == [open |-> {}, begun |-> 0, last |-> None]

\* UPDATE marker_images SET is_primary = false WHERE marker_id = $1
ClearPrimary(tbl, marker_id) ==
    [j \in DOMAIN tbl |->
        IF tbl[j].marker_id = marker_id THEN [tbl[j] EXCEPT !.is_primary = FALSE] ELSE tbl[j]]

\* UPDATE marker_images SET is_primary = true WHERE id = $1 AND marker_id = $2
MarkPrimary(tbl, marker_id, image_id) ==
    [j \in DOMAIN tbl |->
        IF tbl[j].id = image_id /\ tbl[j].marker_id = marker_id
        THEN [tbl[j] EXCEPT !.is_primary = TRUE]
        ELSE tbl[j]]

\* the first statement of a call
BeginPrimary(marker_id, image_id) ==
    /\ calls.begun < NumCalls
    /\ marker_images' = ClearPrimary(marker_images, marker_id)
    /\ calls' = [calls EXCEPT
                    !.begun = @ + 1,
                    !.last = None,
                    !.open = @ \cup {[no |-> calls.begun + 1, marker_id |-> marker_id,
                                      image_id |-> image_id]}]
    /\ UNCHANGED <<markers, h3, request, primary, rows, precision, mode, image_fetches,
                   db_result, response, pending, prev, member_markers, tasks>>

\* the second statement of a call, and its return
FinishPrimary(c) ==
    /\ c \in calls.open
    /\ marker_images' = MarkPrimary(marker_images, c.marker_id, c.image_id)
    /\ calls' = [calls EXCEPT !.open = @ \ {c}, !.last = Some(c)]
    /\ UNCHANGED <<markers, h3, request, primary, rows, precision, mode, image_fetches,
                   db_result, response, pending, prev, member_markers, tasks>>

\* the second statement fails: the call returns the error, the first statement stands
FailPrimary(c) ==
    /\ c \in calls.open
    /\ calls' = [calls EXCEPT !.open = @ \ {c}, !.last = None]
    /\ UNCHANGED <<markers, marker_images, h3, request, primary, rows, precision, mode,
                   image_fetches, db_result, response, pending, prev, member_markers, tasks>>

InitPrimary ==
    /\ markers = [i \in MarkerIds |-> MarkerRow(i)]
    /\ marker_images = [j \in 1..NumImages |-> ImageRow(j)]
    /\ member_markers = {}
    /\ calls = NoPrimaryCalls
    /\ tasks = <<>>
    /\ InitIdle
    /\ h3 \in H3Tables({})
    /\ pending = 0
    /\ prev = Summary

NextPrimary ==
    \/ \E target \in PrimaryTargets : BeginPrimary(target[1], target[2])
    \/ \E c \in calls.open : FinishPrimary(c)
    \/ \E c \in calls.open : FailPrimary(c)

SpecPrimary == InitPrimary /\ [][NextPrimary]_vars

----------------------------------------------------------------------------
(* SpecToggle: toggle_marker_reaction and toggle_marker_bookmark called one
   after the other, every call returning before the next begins, on a store
   without interaction rows.  The log keeps, for every call, what was called,
   what it returned and the store it found. *)

NoToggles == [begun |-> 0, next_id |-> 1, log |-> <<>>]

\* the interaction rows without their ids
Triples(mm) == {<<r.member_id, r.marker_id, r.interaction_type>> : r \in mm}

\* a call, its result, and the rows and markers as they are before it
LogEntry(op, member, marker, result) ==
    [op |-> op, member |-> member, marker |-> marker, result |-> result,
     rows |-> Triples(member_markers), markers |-> markers]

\* DELETE FROM member_markers WHERE id = $1
DeleteRow(mm, id) == {r \in mm : r.id # id}

\* UPDATE member_markers SET interaction_type = $1 WHERE id = $2
RetypeRow(mm, id, type) ==
    {IF r.id = id THEN [r EXCEPT !.interaction_type = type] ELSE r : r \in mm}

\* the whole of toggle_marker_reaction; it returns (likes, dislikes) of the marker
ToggleReaction(member, marker, type) ==
    /\ calls.begun < NumCalls
    /\ \E existing \in FetchOptional(InteractionRows(member_markers, member, marker, ReactionTypes)) :
          /\ IF IsSome(existing)
             THEN IF Unwrap(existing).interaction_type = type
                  THEN /\ member_markers' = DeleteRow(member_markers, Unwrap(existing).id)
                       /\ markers' = RemoveReaction(markers, marker, type)
                  ELSE /\ ~UniqueViolation(member_markers, Unwrap(existing).id, member, marker, type)
                       /\ member_markers' = RetypeRow(member_markers, Unwrap(existing).id, type)
                       /\ markers' = SwitchReaction(markers, marker, type)
             ELSE /\ ~UniqueViolation(member_markers, 0, member, marker, type)
                  /\ member_markers' = InsertRow(member_markers, calls.next_id,
                                                 [member |-> member, marker |-> marker, op |-> type])
                  /\ markers' = AddReaction(markers, marker, type)
          /\ calls' = [begun |-> calls.begun + 1,
                       next_id |-> IF IsSome(existing) THEN calls.next_id ELSE calls.next_id + 1,
                       log |-> Append(calls.log,
                                  LogEntry(type, member, marker,
                                           <<markers'[marker].likes, markers'[marker].dislikes>>))]
    /\ UNCHANGED <<marker_images, h3, request, primary, rows, precision, mode,
                   image_fetches, db_result, response, pending, prev, tasks>>

\* the whole of toggle_marker_bookmark; it returns is_bookmarked
ToggleBookmark(member, marker) ==
    /\ calls.begun < NumCalls
    /\ \E existing \in FetchOptional(InteractionRows(member_markers, member, marker, {"bookmarked"})) :
          /\ IF IsSome(existing)
             THEN member_markers' = DeleteRow(member_markers, Unwrap(existing).id)
             ELSE /\ ~UniqueViolation(member_markers, 0, member, marker, "bookmarked")
                  /\ member_markers' = InsertRow(member_markers, calls.next_id,
                                                 [member |-> member, marker |-> marker, op |-> "bookmarked"])
          /\ calls' = [begun |-> calls.begun + 1,
                       next_id |-> IF IsSome(existing) THEN calls.next_id ELSE calls.next_id + 1,
                       log |-> Append(calls.log,
                                  LogEntry("bookmarked", member, marker, ~IsSome(existing)))]
    /\ UNCHANGED <<markers, marker_images, h3, request, primary, rows, precision, mode,
                   image_fetches, db_result, response, pending, prev, tasks>>

InitToggle ==
    /\ markers = [i \in MarkerIds |->
                    [MarkerRow(i) EXCEPT !.likes = 0, !.dislikes = 0, !.views = 0]]
    /\ marker_images = [j \in 1..NumImages |-> ImageRow(j)]
    /\ member_markers = {}
    /\ calls = NoToggles
    /\ tasks = <<>>
    /\ InitIdle
    /\ h3 \in H3Tables({})
    /\ pending = 0
    /\ prev = Summary

NextToggle ==
    \/ \E member \in Members, marker \in ReactionMarkers, type \in ReactionTypes :
          ToggleReaction(member, marker, type)
    \/ \E member \in Members, marker \in ReactionMarkers : ToggleBookmark(member, marker)

SpecToggle == InitToggle /\ [][NextToggle]_vars

----------------------------------------------------------------------------
(* SpecStore: one cluster request, served at any moment among the reaction
   and view calls of one member on one marker, which write the store *)

\* the member whose calls write the store, and the marker they are about
StoreMember == CHOOSE member \in Members : TRUE
StoreMarker == CHOOSE marker \in ReactionMarkers : TRUE

InitStoreCalls ==
    /\ markers = [i \in MarkerIds |-> MarkerRow(i)]
    /\ marker_images = [j \in 1..NumImages |-> ImageRow(j)]
    /\ member_markers = {}
    /\ calls = NoCalls
    /\ tasks = <<>>
    /\ InitIdle
    /\ h3 \in TaskH3Tables
    /\ pending = 1
    /\ prev = Summary

NextStore ==
    \/ \E type \in ReactionTypes : BeginReaction(StoreMember, StoreMarker, type)
    \/ BeginView(StoreMember, StoreMarker)
    \/ \E c \in calls.open : CommitReaction(c)
    \/ \E c \in calls.open : CommitView(c)
    \/ \E c \in calls.open : AbortCall(c)
    \/ \E req \in Arriving(TaskRequests) : StoreError(req)
    \/ \E req \in Arriving(TaskRequests) : Ungrouped(req, {})
    \/ \E req \in Arriving(TaskRequests) : Grouped(req, {})
    \/ \E req \in Arriving(TaskRequests) : ReduceError(req, {})

SpecStore == InitStoreCalls /\ [][NextStore]_vars

----------------------------------------------------------------------------
(* The sort a request asks for, as get_markers reads sort_by and sort_order *)

AllowedSort == {"created_at", "likes", "views", "dislikes"}

\* sort_by.filter(|s| allowed_sort.contains(..)).unwrap_or("created_at")
SortCol(sort_by) ==
    IF IsSome(sort_by) /\ Unwrap(sort_by) \in AllowedSort THEN Unwrap(sort_by) ELSE "created_at"

\* sort_order.filter(|o| asc or desc).unwrap_or("desc")
SortDir(sort_order) ==
    IF IsSome(sort_order) /\ Unwrap(sort_order) \in {"asc", "desc"} THEN Unwrap(sort_order) ELSE "desc"

\* the value of a sort column in a marker object
SortKey(mk, col) ==
    CASE col = "likes"    -> mk.likes
      [] col = "views"    -> mk.views
      [] col = "dislikes" -> mk.dislikes
      [] OTHER            -> mk.createdAt

\* a sequence of marker objects is in the order ORDER BY col dir allows
SortedAs(mks, col, dir) ==
    \A i, j \in DOMAIN mks :
        i < j => IF dir = "asc"
                 THEN SortKey(mks[i], col) <= SortKey(mks[j], col)
                 ELSE SortKey(mks[i], col) >= SortKey(mks[j], col)

----------------------------------------------------------------------------
(* Properties *)

\* the marker objects of a cluster list, cluster after cluster
AllMarkers(clusters) == Flatten([i \in DOMAIN clusters |-> clusters[i].markers])

\* the marker ids of a cluster list, cluster after cluster
AllMarkerIds(clusters) == Flatten([i \in DOMAIN clusters |-> clusters[i].marker_ids])

RowIds == {rows[i].id : i \in DOMAIN rows}

(* C1 - Partition: the marker_ids of the returned clusters, taken together,
   are exactly the ids the primary query returned, and no id occurs twice
   (neither in two clusters nor twice in one). *)
C1_Partition ==
    db_result.state = "Ok" =>
        /\ NoDup(AllMarkerIds(db_result.clusters))
        /\ Range(AllMarkerIds(db_result.clusters)) = RowIds

\* grouped mode put three rows into two clusters
C1_Witness ==
    /\ db_result.state = "Ok"
    /\ mode = "grouped"
    /\ Len(rows) = 3
    /\ Len(db_result.clusters) = 2

(* C2 - Ungrouped mode is taken exactly when the selected resolution is >= 9
   or both spans are below 0.01 (so always when both are below 0.01); in it
   every cluster has count 1, a null cell id, one marker id, and the
   latitude and longitude of that marker as its centre. *)
C2_UngroupedMode ==
    db_result.state = "Ok" =>
        /\ (mode = "ungrouped") <=>
              (precision >= 9 \/ (request.lat_delta < 10 /\ request.lng_delta < 10))
        /\ (request.lat_delta < 10 /\ request.lng_delta < 10) => mode = "ungrouped"
        /\ mode = "ungrouped" =>
              \A i \in DOMAIN db_result.clusters :
                  LET c == db_result.clusters[i]
                  IN  /\ c.count = 1
                      /\ c.h3_index = None
                      /\ Len(c.marker_ids) = 1
                      /\ Len(c.markers) = 1
                      /\ c.marker_ids[1] \in DOMAIN markers
                      /\ c.lat = [num |-> markers[c.marker_ids[1]].latitude, den |-> 1]
                      /\ c.lng = [num |-> markers[c.marker_ids[1]].longitude, den |-> 1]

\* a span on the 0.03 threshold: three markers returned one by one
C2_Witness ==
    /\ db_result.state = "Ok"
    /\ mode = "ungrouped"
    /\ request.lat_delta = 30
    /\ Len(db_result.clusters) = 3

\* the table of the precision selector, read on the larger span
PrecisionOfSpan(span) ==
    IF span > 2000 THEN 3
    ELSE IF span > 500 THEN 4
    ELSE IF span > 100 THEN 5
    ELSE IF span > 30 THEN 8
    ELSE 9

(* C3 - The resolution is a function of the unbuffered spans alone: with
   span the larger of lat_delta and lng_delta it is 3 above 2.0, 4 above
   0.5, 5 above 0.1, 8 above 0.03 and 9 otherwise; a span on a threshold
   selects the finer resolution. *)
C3_PrecisionTable ==
    precision # 0 =>
        precision = PrecisionOfSpan(Max(request.lat_delta, request.lng_delta))

\* a span of exactly 2.0 selects 4, not 3
C3_Witness ==
    /\ precision = 4
    /\ request.lat_delta = 2000
    /\ request.lng_delta = 5

\* the rows a cluster's marker_ids name
MembersOf(c) == SelectSeq(rows, LAMBDA m : m.id \in Range(c.marker_ids))

\* the members lie on the four corners (0,0), (0,2), (2,0), (2,2), one on each
OnFourCorners(members) ==
    /\ Len(members) = 4
    /\ {<<members[i].latitude, members[i].longitude>> : i \in DOMAIN members}
          = {<<0, 0>>, <<0, 2000>>, <<2000, 0>>, <<2000, 2000>>}

(* C4 - Centroid: the centre of a grouped cluster is the plain mean of its
   members' latitudes and of their longitudes (sum over count, as a
   fraction in lowest terms); for members on (0,0), (0,2), (2,0), (2,2) it
   is exactly (1,1). *)
C4_Centroid ==
    db_result.state = "Ok" =>
        \A i \in DOMAIN db_result.clusters :
            LET c == db_result.clusters[i]
                members == MembersOf(c)
                lats == [k \in DOMAIN members |-> members[k].latitude]
                lngs == [k \in DOMAIN members |-> members[k].longitude]
            IN  IsSome(c.h3_index) =>
                  /\ c.count = Len(members)
                  /\ c.lat.den > 0 /\ c.lat.num * c.count = c.lat.den * SumSeq(lats)
                  /\ c.lng.den > 0 /\ c.lng.num * c.count = c.lng.den * SumSeq(lngs)
                  /\ GCD(Abs(c.lat.num), c.lat.den) = 1
                  /\ GCD(Abs(c.lng.num), c.lng.den) = 1
                  /\ OnFourCorners(members) =>
                        /\ c.lat = [num |-> 1000, den |-> 1]
                        /\ c.lng = [num |-> 1000, den |-> 1]

\* the four corners were reduced to one cluster
C4_Witness ==
    /\ db_result.state = "Ok"
    /\ Len(db_result.clusters) = 1
    /\ IsSome(db_result.clusters[1].h3_index)
    /\ OnFourCorners(rows)
    /\ db_result.clusters[1].count = 4

\* the image fetch of this marker failed
FetchFailed(id) ==
    \E i \in DOMAIN image_fetches : image_fetches[i].marker_id = id /\ ~image_fetches[i].ok

\* the images the table holds for a marker
StoredImageIds(id) == {marker_images[j].id : j \in {k \in DOMAIN marker_images : marker_images[k].marker_id = id}}

(* C5 - Graceful image failure: whichever image fetches fail, a request
   whose primary query succeeded succeeds and holds every marker of the
   query; a marker whose fetch failed has no images, every other marker has
   exactly the images the store holds for it. *)
C5_ImageFailure ==
    /\ primary = "Ok" => (db_result.state = "Ok" /\ response.status = "Ok")
    /\ db_result.state = "Ok" =>
        /\ RowIds \subseteq {mk.id : mk \in Range(AllMarkers(db_result.clusters))}
        /\ \A mk \in Range(AllMarkers(db_result.clusters)) :
              IF FetchFailed(mk.id)
              THEN mk.images = <<>>
              ELSE /\ {mk.images[k].id : k \in DOMAIN mk.images} = StoredImageIds(mk.id)
                   /\ Len(mk.images) = Cardinality(StoredImageIds(mk.id))

\* one fetch failed, another marker of the same response carries its images
C5_Witness ==
    /\ response.status = "Ok"
    /\ \E a, b \in Range(AllMarkers(response.data)) :
          /\ FetchFailed(a.id) /\ StoredImageIds(a.id) # {} /\ a.images = <<>>
          /\ ~FetchFailed(b.id) /\ Len(b.images) = 2

\* the caller asked for my=true and the token names a user
Authenticated == MyFlag(request) /\ request.token.kind = "valid"

(* C6 - Ownership flag: every returned marker carries isMine; with my=true
   and an authenticated user U it is true for the markers U owns and false
   for the others; without a user id it is false for all. *)
C6_OwnershipFlag ==
    response.status = "Ok" =>
        \A mk \in Range(AllMarkers(response.data)) :
            /\ "isMine" \in DOMAIN mk
            /\ IF Authenticated
               THEN mk.isMine = (markers[mk.id].member_id = Some(request.token.sub))
               ELSE mk.isMine = FALSE

\* an authenticated caller got a marker of their own, flagged
C6_Witness ==
    /\ response.status = "Ok"
    /\ Authenticated
    /\ \E mk \in Range(AllMarkers(response.data)) :
          mk.isMine /\ markers[mk.id].member_id = Some(request.token.sub)

\* sort_by or sort_order is given and is not a recognised value
UnrecognizedSort ==
    \/ IsSome(request.sort_by) /\ Unwrap(request.sort_by) \notin AllowedSort
    \/ IsSome(request.sort_order) /\ Unwrap(request.sort_order) \notin {"asc", "desc"}

(* C7 - Sort fallback: a request with an unrecognised sort_by or sort_order
   is served like any other, and within every cluster the markers are in
   the order of the requested sort with the default (created_at, desc)
   standing in for the unrecognised part. *)
C7_SortFallback ==
    (UnrecognizedSort /\ primary = "Ok") =>
        /\ response.status = "Ok"
        /\ \A i \in DOMAIN response.data :
              SortedAs(response.data[i].markers,
                       SortCol(request.sort_by), SortDir(request.sort_order))

(* C8 - Within every returned cluster the markers are in the order of the
   sort the caller asked for (whitelisted column, direction). *)
C8_RequestedOrder ==
    response.status = "Ok" =>
        \A i \in DOMAIN response.data :
            SortedAs(response.data[i].markers,
                     SortCol(request.sort_by), SortDir(request.sort_order))

(* C10 - A failed primary query fails the request: the database layer
   returns an error and no cluster, no image fetch is issued, and the
   handler answers 500 without data. *)
C10_StoreFailure ==
    primary = "Failed" =>
        /\ db_result.state = "Err"
        /\ db_result.clusters = <<>>
        /\ image_fetches = <<>>
        /\ response.status = "InternalServerError"
        /\ response.data = <<>>

\* the primary query of a request failed
C10_Witness ==
    /\ primary = "Failed"
    /\ response.status = "InternalServerError"

\* two requests were served, both returned clusters for the same markers, and
\* the second viewport is at least as wide as the first on both axes
WidenedOnSameMarkers ==
    /\ pending = 0
    /\ prev.state = "Ok"
    /\ db_result.state = "Ok"
    /\ prev.ids = RowIds
    /\ request.lat_delta >= prev.lat_delta
    /\ request.lng_delta >= prev.lng_delta

(* C9 - Precision monotonicity, as claimed: for the same markers a viewport
   at least as wide on both axes never yields more clusters, across every
   step of the resolution. *)
C9_Monotone ==
    WidenedOnSameMarkers => Len(db_result.clusters) <= prev.count

(* C9, amended - for the same markers a viewport at least as wide on both
   axes yields no more clusters when the narrower one was served ungrouped
   or both select the same resolution. *)
C9_MonotoneFromUngrouped ==
    (WidenedOnSameMarkers /\ (prev.mode = "ungrouped" \/ prev.precision = precision))
        => Len(db_result.clusters) <= prev.count

\* zooming out of ungrouped mode merged markers into fewer clusters
C9_Witness ==
    /\ WidenedOnSameMarkers
    /\ prev.mode = "ungrouped"
    /\ mode = "grouped"
    /\ Len(db_result.clusters) < prev.count

\* the limit the request is served with
RequestedLimit == IF IsSome(request.limit) THEN Unwrap(request.limit) ELSE 1000

\* the caller the query is restricted to, if any
OwnerFilter == IF MyFlag(request) THEN ExtractUserId(request.token) ELSE None

\* the tag, likes, views and owner filters of the request let the marker through
PassesFilters(m) ==
    /\ IsSome(OwnerFilter) => m.member_id = OwnerFilter
    /\ (IsSome(request.emotion_tags) /\ request.emotion_tags # Some({}))
          => m.emotion_tag \in Unwrap(request.emotion_tags)
    /\ IsSome(request.min_likes) => m.likes >= Unwrap(request.min_likes)
    /\ IsSome(request.min_views) => m.views >= Unwrap(request.min_views)

(* the marker's offset from the centre stays within factor/10 times half the
   span on both axes (strict: off the border too) *)
WithinRect(m, factor, strict) ==
    LET dlat == 20 * Abs(m.latitude - request.lat)
        dlng == 20 * Abs(m.longitude - request.lng)
    IN  IF strict
        THEN dlat < factor * request.lat_delta /\ dlng < factor * request.lng_delta
        ELSE dlat <= factor * request.lat_delta /\ dlng <= factor * request.lng_delta

\* the stored markers inside the viewport enlarged by 20% that pass the filters
Eligible == {i \in DOMAIN markers : WithinRect(markers[i], 12, TRUE) /\ PassesFilters(markers[i])}

(* C11 - Overscan: a marker is selected only if it lies in the rectangle
   centred on (lat, lng) with half-extent (delta / 2) * 1.2 on each axis and
   passes the tag, likes, views and owner filters; every such marker is
   selected, up to the limit; the resolution is chosen from the spans as
   given, without the margin. *)
C11_Overscan ==
    db_result.state = "Ok" =>
        /\ \A id \in RowIds : WithinRect(markers[id], 12, FALSE) /\ PassesFilters(markers[id])
        /\ IF Cardinality(Eligible) <= RequestedLimit
           THEN Eligible \subseteq RowIds
           ELSE Cardinality(RowIds) = RequestedLimit
        /\ precision = PrecisionOfSpan(Max(request.lat_delta, request.lng_delta))

(* a marker outside the viewport proper came back through the margin, and
   with no limit given a filter kept another marker of the rectangle out *)
C11_Witness ==
    /\ db_result.state = "Ok"
    /\ \E id \in RowIds : ~WithinRect(markers[id], 10, FALSE)
    /\ \E i \in DOMAIN markers : WithinRect(markers[i], 12, TRUE) /\ i \notin RowIds
    /\ RequestedLimit = 1000

(* C12 - Limit: the markers of all clusters of one response are never more
   than the requested limit, nor more than 1000 when no limit is given. *)
C12_Limit ==
    response.status = "Ok" =>
        /\ Len(AllMarkers(response.data)) <= RequestedLimit
        /\ SumSeq([i \in DOMAIN response.data |-> response.data[i].count]) <= RequestedLimit
        /\ Len(AllMarkers(response.data)) <= 1000

\* the limit cut the result: more markers were eligible than came back
C12_Witness ==
    /\ response.status = "Ok"
    /\ Len(AllMarkers(response.data)) = 2
    /\ RequestedLimit = 2
    /\ Cardinality(Eligible) > 2

(* C13 - Image order: in every returned marker the images are in ascending
   image_order, and images of equal image_order in ascending creation
   time. *)
C13_ImageOrder ==
    response.status = "Ok" =>
        \A mk \in Range(AllMarkers(response.data)) :
            \A i, j \in DOMAIN mk.images :
                i < j => \/ mk.images[i].imageOrder < mk.images[j].imageOrder
                         \/ /\ mk.images[i].imageOrder = mk.images[j].imageOrder
                            /\ mk.images[i].createdAt <= mk.images[j].createdAt

\* the cluster requests that have answered with clusters
Served == {t \in DOMAIN tasks : tasks[t].pc = "done" /\ tasks[t].out.state = "Ok"}

(* C14 - Join, not race: a request answers only after every one of its image
   fetches has completed, by success or by failure, and its grouping and
   reduction have covered every row; a returned marker whose fetch succeeded
   carries every image the store holds for it. *)
C14_Join ==
    \A t \in Served :
        /\ DOMAIN tasks[t].fetched = Range(tasks[t].ids)
        /\ Range(tasks[t].ids) = {tasks[t].rows[i].id : i \in DOMAIN tasks[t].rows}
        /\ Len(AllMarkers(tasks[t].out.clusters)) = Len(tasks[t].rows)
        /\ \A mk \in Range(AllMarkers(tasks[t].out.clusters)) :
              mk.id \notin tasks[t].failed =>
                  {mk.images[k].id : k \in DOMAIN mk.images} = StoredImageIds(mk.id)

\* a grouped request answered with the images of a marker while another request is still fetching
C14_Witness ==
    \E t \in Served : \E u \in DOMAIN tasks :
        /\ tasks[t].mode = "grouped"
        /\ Len(tasks[t].rows) = 2
        /\ \E mk \in Range(AllMarkers(tasks[t].out.clusters)) : Len(mk.images) = 2
        /\ tasks[u].pc = "fetching"
        /\ tasks[u].fetched # <<>>
        /\ ~JoinReady(tasks[u])

(* C18 - Isolation: whatever the interleaving of concurrent requests, and
   whichever of them are abandoned, every image list of a response is the
   list that request's own fetch for that marker returned. *)
C18_Isolation ==
    \A t \in Served :
        \A mk \in Range(AllMarkers(tasks[t].response.data)) :
            /\ mk.id \in DOMAIN tasks[t].fetched
            /\ mk.images = ImagesJson(mk, tasks[t].fetched)

(* two requests answered for the same marker, one with the images its fetch
   returned, the other with none because its own fetch failed *)
C18_Witness ==
    \E t, u \in Served :
        \E a \in Range(AllMarkers(tasks[t].response.data)) :
        \E b \in Range(AllMarkers(tasks[u].response.data)) :
            /\ a.id = b.id
            /\ a.images # <<>>
            /\ b.images = <<>>
            /\ b.id \in tasks[u].failed

(* C15 - Only a failure of the primary marker query makes the database
   layer return an error: whichever image fetch fails, and whether or not
   the reduction task fails, a request whose primary query succeeded is not
   turned into an error. *)
C15_OnlyPrimaryFails ==
    /\ db_result.state = "Err" => primary = "Failed"
    /\ response.status = "InternalServerError" => primary = "Failed"

(* C16 - Empty result: when the primary query returns no marker the request
   succeeds, in grouped and in ungrouped mode alike, with an empty cluster
   array and count 0. *)
C16_EmptyResult ==
    (primary = "Ok" /\ rows = <<>>) =>
        /\ mode \in {"grouped", "ungrouped"}
        /\ db_result = [state |-> "Ok", clusters |-> <<>>]
        /\ image_fetches = <<>>
        /\ response.status = "Ok"
        /\ response.data = <<>>
        /\ response.count = 0

\* grouped mode, markers in the rectangle, and the filters let none of them through
C16_Witness ==
    /\ primary = "Ok"
    /\ rows = <<>>
    /\ mode = "grouped"
    /\ response.status = "Ok"
    /\ \E i \in DOMAIN markers : WithinRect(markers[i], 12, TRUE)
    /\ RequestedLimit = 1000

\* a request has been answered
Answered == response # NoResponse

(* C17 - Unauthorized: a request with my=true whose token yields no user id
   is answered Unauthorized without the marker query or any image fetch
   being issued; a request with my absent or false is never refused and is
   served without a user id whatever token it carries: no owner restriction,
   isMine false throughout. *)
C17_Unauthorized ==
    Answered =>
        /\ (MyFlag(request) /\ request.token.kind # "valid") =>
              /\ response.status = "Unauthorized"
              /\ primary = "NotIssued"
              /\ db_result.state = "NotCalled"
              /\ image_fetches = <<>>
        /\ response.status = "Unauthorized" => (MyFlag(request) /\ request.token.kind # "valid")
        /\ (~MyFlag(request) /\ response.status = "Ok") =>
              /\ \A mk \in Range(AllMarkers(response.data)) : mk.isMine = FALSE
              /\ request.limit = None =>
                    {i \in DOMAIN markers : WithinRect(markers[i], 12, TRUE)} \subseteq RowIds

\* my=true with a token that does not verify was refused
C17_Witness ==
    /\ response.status = "Unauthorized"
    /\ request.my = Some(TRUE)
    /\ request.token.kind = "forged"
    /\ primary = "NotIssued"

(* C19 - Counters: likes, dislikes and views of every marker are >= 0 in
   every reachable state, whatever like toggles, dislike toggles and view
   records the members issue and however the calls interleave. *)
C19_Counters ==
    \A i \in DOMAIN markers :
        /\ markers[i].likes >= 0
        /\ markers[i].dislikes >= 0
        /\ markers[i].views >= 0

(* marker 2 starts without dislikes.  One row was ever inserted, two calls
   that take a reaction back committed, and only marker 2 was touched, its
   likes and views left alone: a dislike, its removal, and a second removal
   that had read the row before the first one committed and met the counter
   at 0 *)
C19_Witness ==
    /\ calls.removed = 2
    /\ calls.next_id = 2
    /\ calls.open = {}
    /\ member_markers = {}
    /\ markers[2].dislikes = 0
    /\ markers[2].likes = MarkerRow(2).likes
    /\ markers[2].views = MarkerRow(2).views
    /\ \A i \in DOMAIN markers \ {2} : markers[i] = MarkerRow(i)

(* C20 - Read-only: the step that serves a cluster request, whether it
   answers with clusters or with an error, leaves every marker row, every
   marker image row and every member-marker interaction row as it was. *)
C20_ReadOnly ==
    [][pending' # pending =>
          /\ markers' = markers
          /\ marker_images' = marker_images
          /\ member_markers' = member_markers]_vars

(* a request was served with clusters from a store holding interaction rows
   and counters that reaction calls had moved, and they stand as the calls
   left them *)
C20_Witness ==
    /\ pending = 0
    /\ response.status = "Ok"
    /\ member_markers # {}
    /\ calls.open = {}
    /\ \E mk \in Range(AllMarkers(response.data)) :
          /\ mk.likes = MarkerRow(mk.id).likes + 1
          /\ markers[mk.id].likes = mk.likes

(* C21 - Response count: the count field of a successful cluster response is
   the number of cluster objects in the returned array, not the number of
   markers those clusters contain. *)
C21_ResponseCount ==
    response.status = "Ok" =>
        /\ response.count = Len(response.data)
        /\ response.data = AddIsMine(db_result.clusters, UserIdOf(request))

\* three markers answered in two clusters: count is 2, not 3
C21_Witness ==
    /\ response.status = "Ok"
    /\ mode = "grouped"
    /\ response.count = 2
    /\ Len(AllMarkers(response.data)) = 3

\* the positions of the clusters of the result that list marker id
ClustersHolding(id) ==
    {i \in DOMAIN db_result.clusters : id \in Range(db_result.clusters[i].marker_ids)}

(* C22 - Cells: in grouped mode two markers of a request are in the same
   cluster if and only if their coordinates map to the same cell id at the
   selected resolution; no two clusters of a response carry the same cell id
   and no cluster is empty. *)
C22_Cells ==
    (mode = "grouped" /\ db_result.state = "Ok") =>
        /\ \A a, b \in DOMAIN rows :
              (ClustersHolding(rows[a].id) \cap ClustersHolding(rows[b].id) # {})
                  <=> (CellOf(h3, rows[a], precision) = CellOf(h3, rows[b], precision))
        /\ \A a \in DOMAIN rows : \A i \in ClustersHolding(rows[a].id) :
              db_result.clusters[i].h3_index = Some(CellOf(h3, rows[a], precision))
        /\ \A i, j \in DOMAIN db_result.clusters :
              i # j => db_result.clusters[i].h3_index # db_result.clusters[j].h3_index
        /\ \A i \in DOMAIN db_result.clusters :
              /\ db_result.clusters[i].marker_ids # <<>>
              /\ db_result.clusters[i].markers # <<>>

\* two of the rows fell into one cell and a third into another
C22_Witness ==
    /\ mode = "grouped"
    /\ db_result.state = "Ok"
    /\ \E a, b, c \in DOMAIN rows :
          /\ a # b
          /\ CellOf(h3, rows[a], precision) = CellOf(h3, rows[b], precision)
          /\ CellOf(h3, rows[a], precision) # CellOf(h3, rows[c], precision)
          /\ ClustersHolding(rows[a].id) = ClustersHolding(rows[b].id)
          /\ ClustersHolding(rows[a].id) # ClustersHolding(rows[c].id)

(* C23 - Fan-out: for each request, in either mode, the image fetches are
   one per marker id the primary query returned, none missing and none
   twice, and all of them are issued together: every fetch that has not
   completed is outstanding, whatever their number (only the connections
   they hold are limited, by the pool). *)
C23_FanOut ==
    /\ \A t \in DOMAIN tasks :
          /\ NoDup(tasks[t].ids)
          /\ Range(tasks[t].ids) = {tasks[t].rows[i].id : i \in DOMAIN tasks[t].rows}
          /\ DOMAIN tasks[t].fetched \subseteq Range(tasks[t].ids)
          /\ tasks[t].pc = "fetching" =>
                tasks[t].in_flight = Range(tasks[t].ids) \ DOMAIN tasks[t].fetched
          /\ tasks[t].pc # "fetching" => tasks[t].in_flight = {}
          /\ tasks[t].pc \in {"reducing", "done"} => DOMAIN tasks[t].fetched = Range(tasks[t].ids)
          /\ tasks[t].running \subseteq tasks[t].in_flight
    /\ ConnectionsInUse(tasks) <= PoolSize

(* an ungrouped and a grouped request are both waiting for their images,
   each with the fetches of all its markers outstanding and none completed *)
C23_Witness ==
    \E t, u \in DOMAIN tasks :
        /\ tasks[t].pc = "fetching" /\ tasks[t].mode = "ungrouped"
        /\ tasks[u].pc = "fetching" /\ tasks[u].mode = "grouped"
        /\ tasks[t].fetched = <<>> /\ tasks[u].fetched = <<>>
        /\ Len(tasks[t].rows) = 2 /\ Cardinality(tasks[t].in_flight) = 2
        /\ Len(tasks[u].rows) = 2 /\ Cardinality(tasks[u].in_flight) = 2

(* C24 - Owner restriction: when my=true and the caller is authenticated as
   U, the marker query is restricted to the markers U owns: every marker of
   the response has owner id U and isMine true, and no marker of another
   owner (or of none) is returned. *)
C24_OwnerOnly ==
    (response.status = "Ok" /\ MyFlag(request) /\ IsSome(ExtractUserId(request.token))) =>
        /\ \A id \in RowIds : markers[id].member_id = ExtractUserId(request.token)
        /\ \A mk \in Range(AllMarkers(response.data)) :
              /\ mk.memberId = Unwrap(ExtractUserId(request.token))
              /\ mk.isMine = TRUE

(* C25 - Cluster shape: in every cluster object returned, count is the
   length of marker_ids and of markers and is at least 1, marker_ids[i] is
   the id of markers[i] at every position i, and every image attached to a
   marker carries that marker's id. *)
C25_ClusterShape ==
    response.status = "Ok" =>
        \A k \in DOMAIN response.data :
            LET c == response.data[k]
            IN  /\ c.count = Len(c.marker_ids)
                /\ c.count = Len(c.markers)
                /\ c.count >= 1
                /\ \A i \in DOMAIN c.markers :
                      /\ c.marker_ids[i] = c.markers[i].id
                      /\ \A n \in DOMAIN c.markers[i].images :
                            c.markers[i].images[n].markerId = c.markers[i].id

\* a cluster of two markers, each with images of its own, next to another cluster
C25_Witness ==
    /\ response.status = "Ok"
    /\ Len(response.data) = 2
    /\ \E k \in DOMAIN response.data :
          /\ response.data[k].count = 2
          /\ \A i \in DOMAIN response.data[k].markers : response.data[k].markers[i].images # <<>>

\* the interaction rows of a type recorded for a marker
RowsOf(marker, type) ==
    {r \in member_markers : r.marker_id = marker /\ r.interaction_type = type}

(* C26 - Reaction counters: on a store where likes and dislikes of every
   marker equal the numbers of its 'liked' and 'disliked' rows, they still do
   after any toggle_marker_reaction calls, also calls of one member on one
   marker whose transactions interleave. *)
C26_CountersMatchRows ==
    calls.open = {} =>
        \A i \in DOMAIN markers :
            /\ markers[i].likes = Cardinality(RowsOf(i, "liked"))
            /\ markers[i].dislikes = Cardinality(RowsOf(i, "disliked"))

(* C27 - One reaction: a member never holds a 'liked' and a 'disliked' row
   for the same marker, whatever like and dislike toggles the member issues
   and however they interleave. *)
C27_OneReaction ==
    \A r1, r2 \in member_markers :
        (/\ r1.member_id = r2.member_id
         /\ r1.marker_id = r2.marker_id
         /\ r1.interaction_type \in ReactionTypes
         /\ r2.interaction_type \in ReactionTypes) => r1 = r2

(* C28 - Views: a member's first view of a marker adds one to its views and
   every later view of that member adds nothing, so views is the number of
   'viewed' rows of the marker and a member has at most one of them, also
   when view requests of one member run concurrently. *)
C28_ViewsOnce ==
    /\ \A i \in DOMAIN markers : markers[i].views = Cardinality(RowsOf(i, "viewed"))
    /\ \A r1, r2 \in member_markers :
          (/\ r1.member_id = r2.member_id
           /\ r1.marker_id = r2.marker_id
           /\ r1.interaction_type = "viewed"
           /\ r2.interaction_type = "viewed") => r1 = r2

(* member 1 has seen marker 1: the view is recorded and counted once, while
   a second view request of the member, which had found no view when it
   looked, is still under way *)
C28_Witness ==
    /\ markers[1].views = 1
    /\ \E r \in RowsOf(1, "viewed") : r.member_id = 1
    /\ \E c \in calls.open :
          c.op = "viewed" /\ c.member = 1 /\ c.marker = 1 /\ c.existing = None

\* the images of a marker that are flagged primary
PrimaryImages(marker_id) ==
    {marker_images[j].id : j \in {k \in DOMAIN marker_images :
        marker_images[k].marker_id = marker_id /\ marker_images[k].is_primary}}

(* C29 - Primary image: when set_marker_primary_image(marker, image) has
   completed, at most one image of the marker is flagged primary, and it is
   the given image if that image belongs to the marker, whatever other
   set_marker_primary_image calls on the marker ran at the same time. *)
C29_OnePrimary ==
    IsSome(calls.last) =>
        LET c == Unwrap(calls.last)
        IN  /\ Cardinality(PrimaryImages(c.marker_id)) <= 1
            /\ PrimaryImages(c.marker_id) \subseteq {c.image_id}
            /\ (\E j \in DOMAIN marker_images :
                    marker_images[j].id = c.image_id /\ marker_images[j].marker_id = c.marker_id)
                  => PrimaryImages(c.marker_id) = {c.image_id}

\* the last two calls of the log were the same call
SameCallTwice ==
    /\ Len(calls.log) >= 2
    /\ LET first == calls.log[Len(calls.log) - 1]
           second == calls.log[Len(calls.log)]
       IN  first.op = second.op /\ first.member = second.member /\ first.marker = second.marker

\* the rows and the likes and dislikes are those the call before last found
RestoredByPair ==
    LET first == calls.log[Len(calls.log) - 1]
    IN  /\ Triples(member_markers) = first.rows
        /\ \A i \in DOMAIN markers :
              /\ markers[i].likes = first.markers[i].likes
              /\ markers[i].dislikes = first.markers[i].dislikes

\* toggle_marker_bookmark returned true iff the bookmark is there after the call
BookmarkResult ==
    (calls.log # <<>> /\ calls.log[Len(calls.log)].op = "bookmarked") =>
        LET last == calls.log[Len(calls.log)]
        IN  last.result = (<<last.member, last.marker, "bookmarked">> \in Triples(member_markers))

\* of two equal bookmark calls in a row the first returned the negation of the second
BookmarkPair ==
    (SameCallTwice /\ calls.log[Len(calls.log)].op = "bookmarked") =>
        calls.log[Len(calls.log) - 1].result = ~calls.log[Len(calls.log)].result

\* before the first call of the pair the member held the reaction opposite to the one toggled
HeldOpposite ==
    LET first == calls.log[Len(calls.log) - 1]
    IN  /\ first.op \in ReactionTypes
        /\ \E type \in ReactionTypes \ {first.op} : <<first.member, first.marker, type>> \in first.rows

(* C30 - Involution: two consecutive calls of toggle_marker_reaction with the
   same member, marker and reaction type restore the reaction rows and the
   likes and dislikes counters; two consecutive toggle_marker_bookmark calls
   restore the bookmark, the first returning the negation of the second; and
   toggle_marker_bookmark returns true iff the bookmark exists after it. *)
C30_Involution ==
    /\ SameCallTwice => RestoredByPair
    /\ BookmarkPair
    /\ BookmarkResult

(* C30 as it holds: the pair of reaction toggles restores rows and counters
   unless the member held the opposite reaction before the first call; then
   the first call switches the reaction, the second takes it back, and the
   member is left with none.  The bookmark part holds as stated. *)
C30_InvolutionUnlessOpposite ==
    /\ (SameCallTwice /\ ~HeldOpposite) => RestoredByPair
    /\ (SameCallTwice /\ HeldOpposite) =>
          LET first == calls.log[Len(calls.log) - 1]
          IN  /\ Triples(member_markers) =
                    first.rows \ {<<first.member, first.marker, type>> : type \in ReactionTypes}
              /\ markers[first.marker][CounterOf(first.op)] = first.markers[first.marker][CounterOf(first.op)]
              /\ markers[first.marker][OtherCounter(first.op)] =
                    Decrement(first.markers[first.marker][OtherCounter(first.op)])
    /\ BookmarkPair
    /\ BookmarkResult

(* member 1 liked marker 1, then toggled the like twice more: the like was
   taken back and given again, and the row and the counter are as before the
   pair *)
C30_Witness ==
    /\ Len(calls.log) = 3
    /\ \A k \in 1..3 : calls.log[k].op = "liked" /\ calls.log[k].member = 1 /\ calls.log[k].marker = 1
    /\ calls.log[2].rows = {<<1, 1, "liked">>}
    /\ Triples(member_markers) = {<<1, 1, "liked">>}
    /\ markers[1].likes = 1
    /\ calls.log[3].markers[1].likes = 0
====
